---- MODULE Spec2Model ----
(***************************************************************************)
(* A model of ts-effect: the Effect instruction set, the continuation      *)
(* stack and the trampolined interpreter `run`, with the Effect.run and    *)
(* Effect.runP entry points.                                               *)
(*                                                                         *)
(* User functions are opaque closures in the program; here each is a       *)
(* descriptor (a record) with an application operator, so that a run is a  *)
(* deterministic function of the effect that was built.  Values, errors    *)
(* and exception values are integers: values are small, errors are 10 and  *)
(* 11, the exception a user function throws is its descriptor's c.         *)
(***************************************************************************)
EXTENDS Integers, Sequences, FiniteSets, TLC

\* The number of combinator calls (map, flatMap, recover, ...) applied to the
\* leaf effect before it is run.
MaxChain == 3

\* The same number in the specification with fairness.
MaxFairChain == 2

\* The same number for the effect the two sides of associativity are built on.
MaxAssocChain == 2

\* The same number for an effect built with manage, the call of manage not
\* counted.
MaxManageChain == 1

\* The greatest number of effects in the array given to all.
MaxChildren == 3

\* The greatest number of functions in the array given to chain.
MaxFns == 3

\* The greatest number of entries on a ContinuationStack used on its own.
MaxStack == 3

\* The number of combinator calls applied to the leaf effect of an effect that
\* is run twice, or run and then run again inside another.
MaxTwiceChain == 2

\* The number of combinator calls applied to the leaf effect where the
\* functions given to flatMap may return an Async whose starter calls its
\* callback at once.
MaxSyncChain == 2

\* The number of combinator calls applied to the effect of all.
MaxAllThen == 1

VARIABLES
    leaf,   \* the effect the constructors built, before any combinator call
    ops,    \* the combinator calls applied to it, in order: [m, arg]
    prog,   \* the Effect value built so far
    pair,   \* the two continuations of the associativity scenario, once chosen
    runs,   \* the runs started, in order; each is the state of one call of
            \* run (see NewRun)
    agg,    \* the closure of the starter of all(arr): arr, hasFailed, buffer,
            \* and how far its forEach has come (see NoAgg)
    cs      \* a ContinuationStack used on its own: its stack, and the last
            \* method called on it with the stack before and what it returned

vars == <<leaf, ops, prog, pair, runs, agg, cs>>

-----------------------------------------------------------------------------
(* Either *)

failure(l) == [type |-> "failure", value |-> l]
success(r) == [type |-> "success", value |-> r]

\* fold(e)(f, g): g on a failure, f on a success.  Here it tells which branch runs.
foldBranch(e) == IF e.type = "failure" THEN "g" ELSE "f"

-----------------------------------------------------------------------------
(* Effect values *)

Null == [type |-> "null"]
NoResult == [type |-> "none"]

SucceedEffect(a) == [type |-> "SucceedEffect", value |-> a]
FailEffect(e) == [type |-> "FailEffect", error |-> e]
SyncEffect(f) == [type |-> "SyncEffect", f |-> f]
AsyncEffect(c) == [type |-> "AsyncEffect", completable |-> c]
FlatMapEffect(e, f) == [type |-> "FlatMapEffect", effect |-> e, f |-> f]
RecoverEffect(e, r) == [type |-> "RecoverEffect", effect |-> e, r |-> r]

\* An object passed off as an Effect whose type is none of the six.
UnknownEffect == [type |-> "UnknownEffect"]

\* The types the switch of run has a case for.
KnownTypes ==
    {"SucceedEffect", "SyncEffect", "AsyncEffect", "FlatMapEffect", "FailEffect",
     "RecoverEffect"}

\* Error(`Unknown Effect type found by interpreter: ...`)
UnknownTypeError == 77

succeed(a) == SucceedEffect(a)
fail(e) == FailEffect(e)
sync(f) == SyncEffect(f)
async(c) == AsyncEffect(c)
flatMap(e, f) == FlatMapEffect(e, f)
recover(e, r) == RecoverEffect(e, r)

-----------------------------------------------------------------------------
(* User functions *)

\* A function on values: x => x + 1, x => c, or x => { throw c }.
Inc == [op |-> "inc", c |-> 0]
Const(c) == [op |-> "const", c |-> c]
Throwing(c) == [op |-> "throw", c |-> c]

\* b => { release(a); return b }: the function manage gives to map and to
\* mapError, for the resource a.
ReleaseThenReturn(a) == [op |-> "release", c |-> a]

ApplyFn(g, x) ==
    [raised |-> g.op = "throw",
     v |-> IF g.op = "inc" THEN x + 1 ELSE IF g.op = "release" THEN x ELSE g.c]

\* A predicate on values: a => a <= c.
AtMost(c) == [op |-> "atMost", c |-> c]
ApplyPred(p, x) == x <= p.c

\* A function to Either: a => p(a) ? success(g(a)) : failure(e(a)).
Validator(p, g, e) == [p |-> p, g |-> g, e |-> e]
ApplyValidator(f, x) ==
    IF ApplyPred(f.p, x) THEN success(ApplyFn(f.g, x).v)
    ELSE failure(ApplyFn(f.e, x).v)

\* A settled promise, and functions to a promise:
\* a => Promise.resolve(g(a)) and a => Promise.reject(c).
Settled(state, v) == [state |-> state, value |-> v]
Resolving(g) == [settles |-> "fulfilled", g |-> g]
Rejecting(c) == [settles |-> "rejected", g |-> Const(c)]
ApplyPromiseFn(f, x) == Settled(f.settles, ApplyFn(f.g, x).v)

\* A thunk () => v or () => { throw v } given to sync.
Thunk(v) == [throws |-> FALSE, v |-> v]
ThrowingThunk(v) == [throws |-> TRUE, v |-> v]

\* A starter given to async: it passes res to its callback, after the current
\* turn has ended (deferred) or at once, inside the call of the starter.
Starter(res, deferred) == [res |-> res, deferred |-> deferred]

\* Functions that return an Effect:
\*   a => succeed(g(a))        (built by map and recover)
\*   e => fail(g(e))           (built by mapError)
\*   a => eff                  (a user function that ignores its argument)
\*   a => f1(a).flatMap(g1)    (a user function that sequences two others)
SucceedOf(g) == [k |-> "succeedOf", g |-> g]
FailOf(g) == [k |-> "failOf", g |-> g]
Ret(eff) == [k |-> "ret", eff |-> eff]
AndThen(f1, g1) == [k |-> "andThen", f1 |-> f1, g1 |-> g1]

\* a => { throw x }, where an Effect was to be returned.
RaiseK(x) == [k |-> "raise", exn |-> x]

\* The function manage gives to flatMap, for the body function f.
ManageK(f) == [k |-> "manage", body |-> f]

\* all(arr): an Async whose starter runs every effect of arr.
AllStarter(arr) == [arr |-> arr]
IsAllStarter(c) == "arr" \in DOMAIN c
all(arr) == async(AllStarter(arr))

\* A starter that never calls its callback.
NeverCalls == [res |-> NoResult, deferred |-> TRUE]

\* The results a starter passes to its callback.
Passes(c) == IF c.res = NoResult THEN {} ELSE {c.res}

\* A result passed from the then-callback of a promise that has a catch
\* chained after it: .then(b => complete(..)).catch(err => complete(failure(e(err))))
InThen(res, e) == [type |-> res.type, value |-> res.value, rescue |-> e]
HasCatch(res) == "rescue" \in DOMAIN res

\* A starter of flatMapP that has no catch: a rejection is not reported.
flatMapPStarterNoCatch(p, e) ==
    IF p.state = "fulfilled" THEN Starter(success(p.value), TRUE) ELSE NeverCalls

\* The starter flatMapP builds, for the promise p that f(a) returned:
\* complete => p.then(b => complete(success(b)))
\*              .catch(err => complete(failure(e(err))))
\* The callbacks of a promise are called in a later turn.  The catch is on
\* the promise of then, so it also receives an exception that leaves
\* complete(success(b)): the success passed carries e, the function of that
\* catch.
flatMapPStarter(p, e) ==
    IF p.state = "fulfilled" THEN Starter(InThen(success(p.value), e), TRUE)
    ELSE Starter(failure(ApplyFn(e, p.value).v), TRUE)

\* The starter asyncP builds, for the promise p that lazy() returned:
\* complete => p.then(a => complete(right(a))).catch(err => left(err))
asyncPStarter(p) ==
    IF p.state = "fulfilled" THEN Starter(success(p.value), TRUE) ELSE NeverCalls

\* asyncP(lazy), fromPromise(lazy): lazy returns the promise p.
asyncP(p) == async(asyncPStarter(p))

\* The functions filter, validate and flatMapP give to flatMap.
FilterK(p, e) == [k |-> "filter", p |-> p, e |-> e]
ValidateK(f) == [k |-> "validate", f |-> f]
FlatMapPK(f, e) == [k |-> "flatMapP", f |-> f, e |-> e]

\* Effect methods
map(this, f) == flatMap(this, SucceedOf(f))
flatMapM(this, f) == flatMap(this, f)
\* mapError with the handler of recover: the error becomes a value.
mapErrorAsRecover(this, f) == recover(this, SucceedOf(f))

mapError(this, f) == recover(this, FailOf(f))
\* recover with the handler of mapError: the value becomes an error.
recoverAsMapError(this, f) == recover(this, FailOf(f))

recoverM(this, f) == recover(this, SucceedOf(f))
recoverWith(this, f) == recover(this, f)

\* A filter whose e is applied to the failures of the effect as well.
filterMappingErrors(this, p, e) == mapError(flatMap(this, FilterK(p, e)), e)

filter(this, p, e) == flatMap(this, FilterK(p, e))

\* A validate whose f is applied to the failures of the effect as well.
validateFailuresToo(this, f) ==
    recover(flatMap(this, ValidateK(f)), ValidateK(f))

validate(this, f) == flatMap(this, ValidateK(f))

flatMapP(this, f, e) == flatMap(this, FlatMapPK(f, e))

\* The effect of manage's try block without its mapError: no release when the
\* body effect fails.
manageBodyNoMapError(eff, a) == map(eff, ReleaseThenReturn(a))

\* The effect of a manage that releases first and runs the body effect after.
manageBodyReleaseFirst(eff, a) ==
    flatMapM(map(succeed(a), ReleaseThenReturn(a)), Ret(eff))

\* manage: what try { return f(a).map(..).mapError(..) } builds from the effect
\* f(a) returned.
manageBody(eff, a) == mapError(map(eff, ReleaseThenReturn(a)), ReleaseThenReturn(a))

\* manage with a release on every failure, of acquire as well.
manageReleasingOnFailure(acquire, f) ==
    mapError(flatMapM(acquire, ManageK(f)), ReleaseThenReturn(0))

manage(acquire, f) == flatMapM(acquire, ManageK(f))

\* A chain that folds from the right: the functions are sequenced in the
\* reverse of list order.
RECURSIVE chainFromRight(_, _)
chainFromRight(ea, fs) ==
    IF fs = <<>> THEN ea
    ELSE chainFromRight(flatMapM(ea, fs[Len(fs)]), SubSeq(fs, 1, Len(fs) - 1))

\* chain(ea, fs): fs.reduce((e, f) => e.flatMap(f), ea)
RECURSIVE chain(_, _)
chain(ea, fs) ==
    IF fs = <<>> THEN ea ELSE chain(flatMapM(ea, Head(fs)), Tail(fs))

\* e.flatMap(f1)...flatMap(fn), written out: the last call is the outermost.
RECURSIVE flatMaps(_, _)
flatMaps(e, fs) ==
    IF fs = <<>> THEN e
    ELSE flatMapM(flatMaps(e, SubSeq(fs, 1, Len(fs) - 1)), fs[Len(fs)])

Raised(x) == [raised |-> TRUE, exn |-> x, eff |-> Null]
Returned(eff) == [raised |-> FALSE, exn |-> 0, eff |-> eff]

RECURSIVE ApplyKont(_, _)
ApplyKont(f, x) ==
    CASE f.k = "succeedOf" ->
            LET r == ApplyFn(f.g, x)
            IN IF r.raised THEN Raised(r.v) ELSE Returned(succeed(r.v))
      [] f.k = "failOf" ->
            LET r == ApplyFn(f.g, x)
            IN IF r.raised THEN Raised(r.v) ELSE Returned(fail(r.v))
      [] f.k = "ret" -> Returned(f.eff)
      [] f.k = "andThen" ->
            LET r == ApplyKont(f.f1, x)
            IN IF r.raised THEN r ELSE Returned(flatMap(r.eff, f.g1))
      [] f.k = "raise" -> Raised(f.exn)
      [] f.k = "manage" ->
            LET r == ApplyKont(f.body, x)
            IN IF r.raised THEN Returned(fail(r.exn))
               ELSE Returned(manageBody(r.eff, x))
      [] f.k = "filter" ->
            IF ApplyPred(f.p, x) THEN Returned(succeed(x))
            ELSE Returned(fail(ApplyFn(f.e, x).v))
      [] f.k = "validate" ->
            LET v == ApplyValidator(f.f, x)
            IN IF foldBranch(v) = "f" THEN Returned(succeed(v.value))
               ELSE Returned(fail(v.value))
      [] f.k = "flatMapP" ->
            Returned(async(flatMapPStarter(ApplyPromiseFn(f.f, x), f.e)))

\* The resources released while the function f is applied to x: by the
\* functions manage gave to map and mapError, and by the catch of manage when
\* the body function raises.
RECURSIVE ReleasedBy(_, _)
ReleasedBy(f, x) ==
    CASE f.k \in {"succeedOf", "failOf"} ->
            IF f.g.op = "release" THEN <<f.g.c>> ELSE <<>>
      [] f.k = "manage" -> IF ApplyKont(f.body, x).raised THEN <<x>> ELSE <<>>
      [] f.k = "andThen" -> ReleasedBy(f.f1, x)
      [] OTHER -> <<>>

-----------------------------------------------------------------------------
(* ContinuationStack *)

Undefined == [type |-> "undefined"]

Continuation(type, f, id) == [type |-> type, f |-> f, id |-> id]

\* nextContinuation pops until an entry of the wanted type is found or the
\* stack is empty: the entry (or Undefined), the stack left, the entries discarded.
\* nextContinuation without the loop over entries of the other type.
nextContinuationTop(stk, type) ==
    IF stk = <<>>
    THEN [next |-> Undefined, stack |-> <<>>, discarded |-> {}]
    ELSE [next |-> stk[Len(stk)], stack |-> SubSeq(stk, 1, Len(stk) - 1),
          discarded |-> {}]

\* nextContinuation that takes the entry found out of the stack and leaves the
\* entries above it.
nextContinuationOnlyMatch(stk, type) ==
    LET S == {j \in DOMAIN stk : stk[j].type = type}
    IN IF S = {}
       THEN [next |-> Undefined, stack |-> <<>>, discarded |-> {}]
       ELSE LET j == CHOOSE k \in S : \A l \in S : l <= k
            IN [next |-> stk[j],
                stack |-> SubSeq(stk, 1, j - 1) \o SubSeq(stk, j + 1, Len(stk)),
                discarded |-> {}]

\* nextContinuation that gives up at an entry of the other type and leaves it
\* on the stack.
nextContinuationNoScan(stk, type) ==
    IF stk = <<>>
    THEN [next |-> Undefined, stack |-> <<>>, discarded |-> {}]
    ELSE LET next == stk[Len(stk)]
         IN IF next.type # type
            THEN [next |-> Undefined, stack |-> stk, discarded |-> {}]
            ELSE [next |-> next, stack |-> SubSeq(stk, 1, Len(stk) - 1),
                  discarded |-> {}]

\* nextContinuation that returns the entry found and leaves it on the stack.
nextContinuationPeek(stk, type) ==
    LET S == {j \in DOMAIN stk : stk[j].type = type}
    IN IF S = {}
       THEN [next |-> Undefined, stack |-> <<>>, discarded |-> {}]
       ELSE LET j == CHOOSE k \in S : \A l \in S : l <= k
            IN [next |-> stk[j], stack |-> SubSeq(stk, 1, j),
                discarded |-> {stk[l].id : l \in (j + 1)..Len(stk)}]

\* nextContinuation that returns the entry found and empties the stack,
\* entries of enclosing scopes included.
nextContinuationClears(stk, type) ==
    LET S == {j \in DOMAIN stk : stk[j].type = type}
    IN IF S = {}
       THEN [next |-> Undefined, stack |-> <<>>, discarded |-> {}]
       ELSE LET j == CHOOSE k \in S : \A l \in S : l <= k
            IN [next |-> stk[j], stack |-> <<>>,
                discarded |-> {stk[l].id : l \in DOMAIN stk \ {j}}]

\* nextContinuation that returns the entry of the wanted type pushed first.
nextContinuationOldest(stk, type) ==
    LET S == {j \in DOMAIN stk : stk[j].type = type}
    IN IF S = {}
       THEN [next |-> Undefined, stack |-> <<>>, discarded |-> {}]
       ELSE LET j == CHOOSE k \in S : \A l \in S : k <= l
            IN [next |-> stk[j], stack |-> SubSeq(stk, j + 1, Len(stk)),
                discarded |-> {stk[l].id : l \in 1..(j - 1)}]

RECURSIVE nextContinuation(_, _)
nextContinuation(stk, type) ==
    IF stk = <<>>
    THEN [next |-> Undefined, stack |-> <<>>, discarded |-> {}]
    ELSE LET next == stk[Len(stk)]
             rest == SubSeq(stk, 1, Len(stk) - 1)
         IN IF next.type # type
            THEN LET r == nextContinuation(rest, type)
                 IN [r EXCEPT !.discarded = @ \cup {next.id}]
            ELSE [next |-> next, stack |-> rest, discarded |-> {}]

\* nextSuccess asking for the other type.
nextSuccessOfFailure(stk) == nextContinuation(stk, "Failure")

nextSuccess(stk) == nextContinuation(stk, "Success")
nextFailure(stk) == nextContinuation(stk, "Failure")

\* push at the bottom: the stack turned into a queue.
pushSuccessBottom(stk, f, id) == <<Continuation("Success", f, id)>> \o stk

pushSuccess(stk, f, id) == Append(stk, Continuation("Success", f, id))
pushFailure(stk, f, id) == Append(stk, Continuation("Failure", f, id))

-----------------------------------------------------------------------------
(* One run: Effect.run / Effect.runP and the interpreter *)

\* A call of run that goes on with the ContinuationStack of the first run.
NewRunOnFirstStack(m, catches, effect) ==
    [mode |-> m, catches |-> catches, current |-> effect,
     stack |-> IF runs = <<>> THEN <<>> ELSE runs[1].stack, frames |-> 1,
     inExecutor |-> (m = "runP"), pending |-> {}, completeCount |-> 0,
     result |-> NoResult, thrown |-> <<>>, calls |-> <<>>, dropped |-> {},
     nextId |-> 1, promise |-> [state |-> "pending", value |-> 0], settles |-> 0,
     released |-> <<>>, effect |-> effect, performed |-> <<>>,
     callbacks |-> 0, rescue |-> <<>>]

\* The state of one run:
\*   mode           "run" or "runP": the entry point that started it
\*   catches        the interpreter is the one with try/catch around its switch
\*   current        `current` of the innermost active frame of run (Null = null)
\*   stack          the ContinuationStack created for this run
\*   frames         number of active frames of `run`
\*   inExecutor     runP: control is still inside the Promise executor
\*   pending        results that Async starters will pass to their callback later
\*   completeCount  number of invocations of the completion callback
\*   result         the Either last passed to the completion callback
\*   thrown         exceptions that propagated out of a call of run, in order
\*   calls          invocations of continuation functions, in order
\*   dropped        ids of the entries that scans of the stack discarded
\*   nextId         id given to the next entry pushed
\*   promise        runP: the promise returned
\*   settles        runP: number of calls of resolve or reject
\*   released       the resources release was called with, in order
\*   effect         the Effect run was called on
\*   performed      the thunks and starters invoked, in order
\*   callbacks      number of invocations of the callback run gives to starters
\*   rescue         <<e>> while control is inside a then-callback whose promise
\*                  has the catch err => complete(failure(e(err))) after it
NewRun(m, catches, effect) ==
    [mode |-> m, catches |-> catches, current |-> effect, stack |-> <<>>, frames |-> 1,
     inExecutor |-> (m = "runP"), pending |-> {}, completeCount |-> 0,
     result |-> NoResult, thrown |-> <<>>, calls |-> <<>>, dropped |-> {},
     nextId |-> 1, promise |-> [state |-> "pending", value |-> 0], settles |-> 0,
     released |-> <<>>, effect |-> effect, performed |-> <<>>,
     callbacks |-> 0, rescue |-> <<>>]

\* resolve(a) and reject(err) of a promise: only a pending promise changes.
resolve(p, a) ==
    IF p.state # "pending" THEN p ELSE [state |-> "fulfilled", value |-> a]
reject(p, err) ==
    IF p.state # "pending" THEN p ELSE [state |-> "rejected", value |-> err]

\* A completion callback that resolves whatever the result.
completePResolves(p, res) == resolve(p, res.value)

\* runP's completion callback: fold(result)(a => resolve(a), err => reject(err)).
completeP(p, res) ==
    IF foldBranch(res) = "f" THEN resolve(p, res.value) ELSE reject(p, res.value)

\* The completion callback is invoked: the caller's own under Effect.run, which
\* only receives the result; under runP the one that settles the promise.
complete(r, res) ==
    [r EXCEPT !.completeCount = @ + 1,
              !.result = res,
              !.promise = IF r.mode = "runP" THEN completeP(@, res) ELSE @,
              !.settles = IF r.mode = "runP" THEN @ + 1 ELSE @]

\* An exception caught and turned into a failure, as by a try around the switch.
ThrowAsFail(r, x) == [r EXCEPT !.current = fail(x)]

\* An exception that nothing in run catches leaves every active frame of run.
\* Inside the executor of runP's promise the Promise constructor turns it into
\* a rejection.
Throw(r, x) ==
    [r EXCEPT !.thrown = Append(@, x),
              !.current = Null,
              !.frames = 0,
              !.inExecutor = FALSE,
              !.promise = IF r.inExecutor THEN reject(@, x) ELSE @]

\* An exception raised inside the switch of the loop.  The interpreter with
\* try/catch goes on with fail(err); the other has no handler.
Raise(r, x) ==
    IF r.catches THEN [r EXCEPT !.current = fail(x)] ELSE Throw(r, x)

\* An exception raised by the callback given to a starter, outside any loop.
\* Called from inside a starter, the callback is inside the try block of the
\* frame that called the starter; called later, it has no handler.
RaiseInCallback(r, x) ==
    IF r.catches /\ r.frames > 0 THEN [r EXCEPT !.current = fail(x)] ELSE Throw(r, x)

Popped(r, n) == [r EXCEPT !.stack = n.stack, !.dropped = @ \cup n.discarded]

\* The thunk of a Sync or the starter of an Async is invoked.
Performed(r, w) == [r EXCEPT !.performed = Append(@, w)]

Invoked(r, next, x) ==
    [r EXCEPT !.calls = Append(@, [id |-> next.id, type |-> next.type,
                                   f |-> next.f, arg |-> x]),
              !.released = @ \o ReleasedBy(next.f, x)]

\* A Succeed case that ends the loop without the completion callback when no
\* continuation is left.
SucceedCaseSilent(r) ==
    LET succeedEffect == r.current
        n == nextSuccess(r.stack)
        r1 == Popped(r, n)
    IN IF n.next # Undefined
       THEN LET a == ApplyKont(n.next.f, succeedEffect.value)
                r2 == Invoked(r1, n.next, succeedEffect.value)
            IN IF a.raised THEN Raise(r2, a.exn) ELSE [r2 EXCEPT !.current = a.eff]
       ELSE [r1 EXCEPT !.current = Null]

\* SucceedCase without `current = null` where the run completes.
SucceedCaseKeepsCurrent(r) ==
    LET succeedEffect == r.current
        n == nextSuccess(r.stack)
        r1 == Popped(r, n)
    IN IF n.next # Undefined
       THEN LET a == ApplyKont(n.next.f, succeedEffect.value)
                r2 == Invoked(r1, n.next, succeedEffect.value)
            IN IF a.raised THEN Raise(r2, a.exn) ELSE [r2 EXCEPT !.current = a.eff]
       ELSE complete(r1, success(succeedEffect.value))

SucceedCase(r) ==
    LET succeedEffect == r.current
        n == nextSuccess(r.stack)
        r1 == Popped(r, n)
    IN IF n.next # Undefined
       THEN LET a == ApplyKont(n.next.f, succeedEffect.value)
                r2 == Invoked(r1, n.next, succeedEffect.value)
            IN IF a.raised THEN Raise(r2, a.exn) ELSE [r2 EXCEPT !.current = a.eff]
       ELSE complete([r1 EXCEPT !.current = Null], success(succeedEffect.value))

\* A Sync case that invokes the thunk once for the value and once more.
SyncCaseThunkTwice(r) ==
    LET syncEffect == r.current
        n == nextSuccess(r.stack)
        r1 == Performed(Performed(Popped(r, n), syncEffect.f), syncEffect.f)
    IN IF syncEffect.f.throws
       THEN Raise(r1, syncEffect.f.v)
       ELSE LET res == syncEffect.f.v
            IN IF n.next # Undefined
               THEN LET a == ApplyKont(n.next.f, res)
                        r2 == Invoked(r1, n.next, res)
                    IN IF a.raised THEN Raise(r2, a.exn)
                       ELSE [r2 EXCEPT !.current = a.eff]
               ELSE complete([r1 EXCEPT !.current = Null], success(res))

SyncCase(r) ==
    LET syncEffect == r.current
        n == nextSuccess(r.stack)
        r1 == Performed(Popped(r, n), syncEffect.f)
    IN IF syncEffect.f.throws
       THEN Raise(r1, syncEffect.f.v)
       ELSE LET res == syncEffect.f.v
            IN IF n.next # Undefined
               THEN LET a == ApplyKont(n.next.f, res)
                        r2 == Invoked(r1, n.next, res)
                    IN IF a.raised THEN Raise(r2, a.exn)
                       ELSE [r2 EXCEPT !.current = a.eff]
               ELSE complete([r1 EXCEPT !.current = Null], success(res))

\* The callback run passes to an Async starter.  A run it starts is a new
\* frame of run on the same stack.
Callback(r0, res) ==
    LET r == [r0 EXCEPT !.callbacks = @ + 1]
    IN
    IF foldBranch(res) = "f"
    THEN LET n == nextSuccess(r.stack)
             r1 == Popped(r, n)
         IN IF n.next # Undefined
            THEN LET a == ApplyKont(n.next.f, res.value)
                     r2 == Invoked(r1, n.next, res.value)
                 IN IF a.raised THEN RaiseInCallback(r2, a.exn)
                    ELSE [r2 EXCEPT !.current = a.eff, !.frames = @ + 1]
            ELSE complete([r1 EXCEPT !.current = Null], success(res.value))
    ELSE LET n == nextFailure(r.stack)
             r1 == Popped(r, n)
         IN IF n.next # Undefined
            THEN LET a == ApplyKont(n.next.f, res.value)
                     r2 == Invoked(r1, n.next, res.value)
                 IN IF a.raised THEN RaiseInCallback(r2, a.exn)
                    ELSE [r2 EXCEPT !.current = a.eff, !.frames = @ + 1]
            ELSE complete([r1 EXCEPT !.current = Null], failure(res.value))

\* An Async case that holds every result back until the loop has returned.
AsyncCaseAlwaysDefers(r) ==
    LET asyncEffect == r.current
        c == asyncEffect.completable
        r1 == Performed(r, c)
    IN [r1 EXCEPT !.pending = @ \cup Passes(c), !.current = Null]

\* The starter is called with the callback.  A starter that defers keeps the
\* result for later and the loop ends (current = null); one that does not
\* defer calls the callback before it returns, and the frame that called it
\* ends its loop once the callback has returned.
AsyncCase(r) ==
    LET asyncEffect == r.current
        c == asyncEffect.completable
        r1 == Performed(r, c)
    IN IF c.deferred
       THEN [r1 EXCEPT !.pending = @ \cup Passes(c), !.current = Null]
       ELSE Callback(r1, c.res)

\* The FlatMap case of a recursive interpreter: the inner effect is interpreted
\* by a nested call of run.
FlatMapCaseRecursive(r) ==
    LET flatMapEffect == r.current
    IN [r EXCEPT !.current = flatMapEffect.effect,
                 !.stack = pushSuccess(@, flatMapEffect.f, r.nextId),
                 !.nextId = @ + 1,
                 !.frames = @ + 1]

FlatMapCase(r) ==
    LET flatMapEffect == r.current
    IN [r EXCEPT !.current = flatMapEffect.effect,
                 !.stack = pushSuccess(@, flatMapEffect.f, r.nextId),
                 !.nextId = @ + 1]

\* A Fail case that ends the loop without the completion callback when there
\* is no handler.
FailCaseSilent(r) ==
    LET failEffect == r.current
        n == nextFailure(r.stack)
        r1 == Popped(r, n)
    IN IF n.next # Undefined
       THEN LET a == ApplyKont(n.next.f, failEffect.error)
                r2 == Invoked(r1, n.next, failEffect.error)
            IN IF a.raised THEN Raise(r2, a.exn) ELSE [r2 EXCEPT !.current = a.eff]
       ELSE [r1 EXCEPT !.current = Null]

FailCase(r) ==
    LET failEffect == r.current
        n == nextFailure(r.stack)
        r1 == Popped(r, n)
    IN IF n.next # Undefined
       THEN LET a == ApplyKont(n.next.f, failEffect.error)
                r2 == Invoked(r1, n.next, failEffect.error)
            IN IF a.raised THEN Raise(r2, a.exn) ELSE [r2 EXCEPT !.current = a.eff]
       ELSE complete([r1 EXCEPT !.current = Null], failure(failEffect.error))

RecoverCase(r) ==
    LET recoverEffect == r.current
    IN [r EXCEPT !.current = recoverEffect.effect,
                 !.stack = pushFailure(@, recoverEffect.r, r.nextId),
                 !.nextId = @ + 1]

\* The default case of an interpreter that goes on with a failure.
DefaultCaseAsFail(r) == [r EXCEPT !.current = fail(UnknownTypeError)]

\* The default case: throw Error(..).  The interpreter with try/catch has
\* current = fail(Error(..)) here.
DefaultCase(r) ==
    IF r.catches THEN [r EXCEPT !.current = fail(UnknownTypeError)]
    ELSE Throw(r, UnknownTypeError)

\* The loop of a frame ends when current is null, and the frame returns.
ReturnFrame(r) ==
    [r EXCEPT !.frames = @ - 1, !.inExecutor = @ /\ r.frames > 1]

\* A deferred callback that goes on with a new, empty ContinuationStack.
FireCallbackFreshStack(r, res) ==
    Callback([r EXCEPT !.pending = @ \ {res}, !.stack = <<>>], res)

\* A deferred callback that goes on with the ContinuationStack of the run
\* started last.
FireCallbackOnLatestStack(r, res) ==
    Callback([r EXCEPT !.pending = @ \ {res}, !.stack = runs[Len(runs)].stack], res)

\* A deferred callback fires, in a turn of its own.
FireCallback(r, res) ==
    Callback([r EXCEPT !.pending = @ \ {res},
                       !.rescue = IF HasCatch(res) THEN <<res.rescue>> ELSE <<>>],
             res)

\* The step of a run from r to q, seen from the promise whose then-callback
\* the run is in.  An exception that leaves the callback rejects the promise
\* of then, and the catch after it calls complete(failure(e(err))): the
\* callback run gave to the starter, a second time.  A callback that returns
\* leaves nothing for the catch.
TurnEnd(r, q) ==
    IF q.rescue # <<>> /\ Len(q.thrown) > Len(r.thrown)
    THEN Callback([q EXCEPT !.rescue = <<>>],
                  failure(ApplyFn(q.rescue[1], q.thrown[Len(q.thrown)]).v))
    ELSE IF q.frames = 0 THEN [q EXCEPT !.rescue = <<>>] ELSE q

-----------------------------------------------------------------------------
(* The effects and user functions the model draws from *)

Leaves ==
    {succeed(1), succeed(2), fail(10), fail(11), sync(Thunk(1)), sync(ThrowingThunk(99)),
     async(Starter(success(1), TRUE)), async(Starter(failure(10), TRUE)),
     async(Starter(success(1), FALSE)), async(Starter(failure(10), FALSE)),
     UnknownEffect}

\* The promises given to asyncP, and the effects asyncP makes of them.
Promises == {Settled("fulfilled", 1), Settled("rejected", 10)}
PromiseLeaves == {asyncP(p) : p \in Promises}

\* Arguments of map; of mapError; of recover; of flatMap; of recoverWith.
MapFns == {Inc, Throwing(99)}
ErrorFns == {Inc, Const(7)}
RecoverFns == {Inc, Throwing(99)}
FlatMapKonts == {Ret(fail(11)), Ret(async(Starter(success(5), TRUE)))}
RecoverKonts == {Ret(succeed(-1)), Ret(fail(11))}

\* Functions given to flatMap that return an Async whose starter calls its
\* callback before it returns, as incrementEffect of examples/stackSafety.ts.
SyncAsyncKonts ==
    {Ret(async(Starter(success(5), FALSE))), Ret(async(Starter(failure(11), FALSE)))}

\* The body functions given to manage: the effect returned succeeds, fails,
\* is an Async, or the function raises.
BodyKonts ==
    {Ret(succeed(5)), SucceedOf(Inc), Ret(fail(11)), RaiseK(99),
     Ret(async(Starter(success(5), TRUE))), Ret(async(Starter(failure(11), TRUE)))}

\* The continuations of the associativity scenario.
PairKonts == {SucceedOf(Inc), SucceedOf(Const(-1)), Ret(fail(11))}

NoPair == [f |-> Null, g |-> Null]

\* The functions given to chain.
ChainKonts ==
    {SucceedOf(Inc), Ret(fail(11)), Ret(async(Starter(success(5), TRUE))),
     Ret(recoverM(fail(10), Inc))}

ChainLists(n) == UNION {[1..k -> ChainKonts] : k \in 1..n}

\* The effects given to all after the first.
ChildEffects ==
    {succeed(3), fail(10), map(succeed(1), Inc), mapError(fail(10), Inc),
     async(Starter(success(5), TRUE)), async(Starter(failure(11), TRUE))}

ChildLists(n) == UNION {[1..k -> ChildEffects] : k \in 0..n}

\* Arguments of filter, of validate and of flatMapP.
Preds == {AtMost(1), AtMost(5)}
Validators == {Validator(AtMost(1), Inc, Const(7)), Validator(AtMost(5), Const(0), Inc)}
PromiseFns == {Resolving(Inc), Rejecting(12)}

\* new ContinuationStack(), with nothing called on it yet.
NewStack == [stack |-> <<>>, before |-> <<>>, op |-> "new", returned |-> Undefined]

\* The functions pushed on the stack used on its own.
StackKonts == {SucceedOf(Inc), Ret(fail(11))}

-----------------------------------------------------------------------------
(* all *)

\* The closure of the starter of all, before all is called: the array given,
\* whether the starter has been called, the number of children it has
\* started, and its variables hasFailed and buffer.
NoAgg == [arr |-> <<>>, begun |-> FALSE, started |-> 0, hasFailed |-> FALSE,
          buffer |-> <<>>]

\* The callback all gives to the run of each child: the closure after it, and
\* what it passes to completeAll, if it calls it.
allCallback(a, res) ==
    IF foldBranch(res) = "f"
    THEN IF ~a.hasFailed
         THEN LET buffer == Append(a.buffer, res.value)
              IN [agg |-> [a EXCEPT !.buffer = buffer],
                  out |-> IF Len(buffer) = Len(a.arr) THEN <<success(buffer)>>
                          ELSE <<>>]
         ELSE [agg |-> a, out |-> <<>>]
    ELSE [agg |-> [a EXCEPT !.hasFailed = TRUE], out |-> <<failure(res.value)>>]

\* A forEach that stops once a child has failed.
forEachNextUntilFailed(a) ==
    IF a.started < Len(a.arr) /\ ~a.hasFailed THEN a.started + 1 ELSE 0

\* arr.forEach: the index of the next element, 0 when there is none.
forEachNext(a) == IF a.started < Len(a.arr) THEN a.started + 1 ELSE 0

\* Run i is inside the starter of all: forEach has an element left or the run
\* of a child it started has not returned.
InForEach(i) ==
    /\ i = 1
    /\ agg.begun
    /\ \/ forEachNext(agg) # 0
       \/ \E j \in DOMAIN runs : j > 1 /\ runs[j].frames > 0

-----------------------------------------------------------------------------
(* The state machine: build an effect, then run it *)

Init ==
    /\ leaf \in Leaves
    /\ ops = <<>>
    /\ prog = leaf
    /\ pair = NoPair
    /\ runs = <<>>
    /\ agg = NoAgg
    /\ cs = NewStack

Building(bound) == runs = <<>> /\ Len(ops) < bound

Call(m, arg, effect) ==
    /\ ops' = Append(ops, [m |-> m, arg |-> arg])
    /\ prog' = effect
    /\ UNCHANGED <<leaf, pair, runs, agg, cs>>

CallMap(bound) ==
    /\ Building(bound)
    /\ \E f \in MapFns : Call("map", f, map(prog, f))

CallFlatMap(bound) ==
    /\ Building(bound)
    /\ \E f \in FlatMapKonts : Call("flatMap", f, flatMapM(prog, f))

CallMapError(bound) ==
    /\ Building(bound)
    /\ \E f \in ErrorFns : Call("mapError", f, mapError(prog, f))

CallRecover(bound) ==
    /\ Building(bound)
    /\ \E f \in RecoverFns : Call("recover", f, recoverM(prog, f))

CallRecoverWith(bound) ==
    /\ Building(bound)
    /\ \E f \in RecoverKonts : Call("recoverWith", f, recoverWith(prog, f))

Build(bound) ==
    \/ CallMap(bound) \/ CallFlatMap(bound) \/ CallMapError(bound)
    \/ CallRecover(bound) \/ CallRecoverWith(bound)

\* Effect.run(complete): run(this)(complete, new ContinuationStack())
Run ==
    /\ runs = <<>>
    /\ runs' = <<NewRun("run", FALSE, prog)>>
    /\ UNCHANGED <<leaf, ops, prog, pair, agg, cs>>

\* Effect.runP()
RunP ==
    /\ runs = <<>>
    /\ runs' = <<NewRun("runP", FALSE, prog)>>
    /\ UNCHANGED <<leaf, ops, prog, pair, agg, cs>>

InLoop(i, type) == runs[i].frames > 0 /\ runs[i].current.type = type

\* Run i moves to r.  A run that all started has the callback of all as its
\* completion callback, which may call completeAll: the callback the run of
\* all(arr), the first run, gave to the starter.  An exception that leaves a
\* child's run while forEach is going on leaves forEach, the starter and the
\* run that called the starter.
Moved(i, q) ==
    LET r == TurnEnd(runs[i], q)
    IN
    IF i > 1 /\ agg.begun
    THEN LET done == r.completeCount > runs[i].completeCount
             raised == Len(r.thrown) > Len(runs[i].thrown)
             cb == allCallback(agg, r.result)
         IN /\ agg' = IF done THEN cb.agg ELSE agg
            /\ runs' = [runs EXCEPT
                  ![i] = r,
                  ![1] = IF done /\ cb.out # <<>> THEN Callback(@, cb.out[1])
                         ELSE IF raised /\ runs[1].frames > 0
                              THEN Throw(@, r.thrown[Len(r.thrown)])
                              ELSE @]
    ELSE runs' = [runs EXCEPT ![i] = r] /\ agg' = agg

Step(i, type, r) ==
    /\ InLoop(i, type)
    /\ Moved(i, r)
    /\ UNCHANGED <<leaf, ops, prog, pair, cs>>

StepSucceed == \E i \in DOMAIN runs : Step(i, "SucceedEffect", SucceedCase(runs[i]))
StepSync == \E i \in DOMAIN runs : Step(i, "SyncEffect", SyncCase(runs[i]))
StepAsync ==
    \E i \in DOMAIN runs :
        /\ InLoop(i, "AsyncEffect")
        /\ ~IsAllStarter(runs[i].current.completable)
        /\ Step(i, "AsyncEffect", AsyncCase(runs[i]))
StepFlatMap == \E i \in DOMAIN runs : Step(i, "FlatMapEffect", FlatMapCase(runs[i]))
StepFail == \E i \in DOMAIN runs : Step(i, "FailEffect", FailCase(runs[i]))
StepRecover == \E i \in DOMAIN runs : Step(i, "RecoverEffect", RecoverCase(runs[i]))
StepDefault == \E i \in DOMAIN runs : Step(i, "UnknownEffect", DefaultCase(runs[i]))
StepReturn ==
    \E i \in DOMAIN runs :
        /\ ~InForEach(i) \/ runs[i].frames > 1
        /\ Step(i, "null", ReturnFrame(runs[i]))

\* Callbacks fire only between turns: when no frame of any run is active.
Idle == \A i \in DOMAIN runs : runs[i].frames = 0

Fire ==
    /\ Idle
    /\ \E i \in DOMAIN runs : \E res \in runs[i].pending :
            Moved(i, FireCallback(runs[i], res))
    /\ UNCHANGED <<leaf, ops, prog, pair, cs>>

Interpret ==
    \/ StepSucceed \/ StepSync \/ StepAsync \/ StepFlatMap
    \/ StepFail \/ StepRecover \/ StepDefault \/ StepReturn \/ Fire

Next == Build(MaxChain) \/ Run \/ RunP \/ Interpret

Spec == Init /\ [][Next]_vars

\* The loop of run goes on until it ends, and every starter of the model calls
\* its callback.
NextFair == Build(MaxFairChain) \/ Run \/ RunP \/ Interpret

FairSpec == Init /\ [][NextFair]_vars /\ WF_vars(Interpret)

\* The leaf effect may also be one built by asyncP.
InitAsyncP ==
    /\ leaf \in Leaves \cup PromiseLeaves
    /\ ops = <<>>
    /\ prog = leaf
    /\ pair = NoPair
    /\ runs = <<>>
    /\ agg = NoAgg
    /\ cs = NewStack

\* Every promise settles and its callbacks are called; otherwise as FairSpec.
SpecAsyncP == InitAsyncP /\ [][NextFair]_vars /\ WF_vars(Interpret)

\* The two sides of associativity, run one after the other on the effect built:
\* effect.flatMap(f).flatMap(g).run(complete), and when that run is quiet,
\* effect.flatMap(a => f(a).flatMap(g)).run(complete).
RunLeftNested ==
    /\ runs = <<>>
    /\ \E f \in PairKonts, g \in PairKonts :
          /\ pair' = [f |-> f, g |-> g]
          /\ runs' = <<NewRun("run", FALSE, flatMapM(flatMapM(prog, f), g))>>
    /\ UNCHANGED <<leaf, ops, prog, agg, cs>>

RunRightNested ==
    /\ Len(runs) = 1
    /\ pair # NoPair
    /\ runs[1].frames = 0 /\ runs[1].pending = {}
    /\ runs' = Append(runs, NewRun("run", FALSE,
                                   flatMapM(prog, AndThen(pair.f, pair.g))))
    /\ UNCHANGED <<leaf, ops, prog, pair, agg, cs>>

NextAssoc == Build(MaxAssocChain) \/ RunLeftNested \/ RunRightNested \/ Interpret

SpecAssoc == Init /\ [][NextAssoc]_vars

\* The effect is run by the interpreter whose loop has a try around its switch.
RunCatch ==
    /\ runs = <<>>
    /\ runs' = <<NewRun("run", TRUE, prog)>>
    /\ UNCHANGED <<leaf, ops, prog, pair, agg, cs>>

NextCatch == Build(MaxChain) \/ RunCatch \/ Interpret

SpecCatch == Init /\ [][NextCatch]_vars

\* manage(acquire, release, f), once, on the effect built so far as acquire.
Managed == \E k \in DOMAIN ops : ops[k].m = "manage"

CallManage ==
    /\ runs = <<>>
    /\ ~Managed
    /\ \E f \in BodyKonts : Call("manage", f, manage(prog, f))

BuildManaged ==
    /\ Len(ops) < MaxManageChain + (IF Managed THEN 1 ELSE 0)
    /\ Build(MaxManageChain + 1)

NextManage == BuildManaged \/ CallManage \/ Run \/ RunCatch \/ Interpret

SpecManage == Init /\ [][NextManage]_vars

\* all(arr), with the leaf effect as the first effect of arr.
CallAll ==
    /\ runs = <<>>
    /\ agg = NoAgg
    /\ ops = <<>>
    /\ \E rest \in ChildLists(MaxChildren - 1) :
          LET arr == <<prog>> \o rest
          IN /\ agg' = [NoAgg EXCEPT !.arr = arr]
             /\ prog' = all(arr)
    /\ ops' = <<[m |-> "all", arg |-> Null]>>
    /\ UNCHANGED <<leaf, pair, runs, cs>>

\* all has been called: the effect built is all(arr), or has it innermost.
AllCalled == ops # <<>> /\ ops[1].m = "all"

RunAll == AllCalled /\ Run

\* The Async case for the starter of all: the starter is called.
StepAll ==
    \E i \in DOMAIN runs :
        /\ InLoop(i, "AsyncEffect")
        /\ IsAllStarter(runs[i].current.completable)
        /\ runs' = [runs EXCEPT
              ![i] = [Performed(@, @.current.completable) EXCEPT !.current = Null]]
        /\ agg' = [agg EXCEPT !.begun = TRUE]
        /\ UNCHANGED <<leaf, ops, prog, pair, cs>>

\* forEach calls e.run(callback) for the next element, once the run of the
\* one before has returned: a run on a new ContinuationStack.  A run that
\* completeAll started inside the callback of a child has returned by then.
StartChild ==
    /\ agg.begun
    /\ runs[1].frames = 1 /\ runs[1].current = Null
    /\ forEachNext(agg) # 0
    /\ \A j \in DOMAIN runs : j > 1 => runs[j].frames = 0
    /\ runs' = Append(runs, NewRun("run", FALSE, agg.arr[forEachNext(agg)]))
    /\ agg' = [agg EXCEPT !.started = forEachNext(agg)]
    /\ UNCHANGED <<leaf, ops, prog, pair, cs>>

NextAll == CallAll \/ RunAll \/ StepAll \/ StartChild \/ Interpret

SpecAll == Init /\ [][NextAll]_vars

\* all(arr).flatMap(f) and all(arr).recoverWith(g): the effect of all with a
\* continuation after it.
ThenFlatMap == AllCalled /\ CallFlatMap(MaxAllThen + 1)
ThenRecoverWith == AllCalled /\ CallRecoverWith(MaxAllThen + 1)

NextAllThen ==
    \/ CallAll \/ ThenFlatMap \/ ThenRecoverWith \/ RunAll \/ StepAll \/ StartChild
    \/ Interpret

SpecAllThen == Init /\ [][NextAllThen]_vars

\* all([]): all called with an empty array.
CallAllEmpty ==
    /\ runs = <<>>
    /\ agg = NoAgg
    /\ ops = <<>>
    /\ prog' = all(<<>>)
    /\ ops' = <<[m |-> "all", arg |-> Null]>>
    /\ UNCHANGED <<leaf, pair, runs, agg, cs>>

\* all over an array of any length, the empty one included.  Every step of
\* the interpreter and of forEach that can be taken is taken.
NextAllAny == CallAll \/ CallAllEmpty \/ RunAll \/ StepAll \/ StartChild \/ Interpret

SpecAllAny ==
    Init /\ [][NextAllAny]_vars /\ WF_vars(StepAll \/ StartChild \/ Interpret)

\* chain(leaf, fs) is run, and when that run is quiet
\* leaf.flatMap(fs[1])...flatMap(fs[n]) is.
CallChain ==
    /\ runs = <<>>
    /\ ops = <<>>
    /\ \E fs \in ChainLists(MaxFns) :
          /\ ops' = <<[m |-> "chain", arg |-> fs]>>
          /\ prog' = chain(prog, fs)
    /\ UNCHANGED <<leaf, pair, runs, agg, cs>>

RunChain == ops # <<>> /\ Run

RunFlatMaps ==
    /\ Len(runs) = 1
    /\ ops # <<>>
    /\ runs[1].frames = 0 /\ runs[1].pending = {}
    /\ runs' = Append(runs, NewRun("run", FALSE, flatMaps(leaf, ops[1].arg)))
    /\ UNCHANGED <<leaf, ops, prog, pair, agg, cs>>

NextChain == CallChain \/ RunChain \/ RunFlatMaps \/ Interpret

SpecChain == Init /\ [][NextChain]_vars

\* flatMap with a function that returns an Async that does not suspend.
CallFlatMapSync ==
    /\ Building(MaxSyncChain)
    /\ \E f \in SyncAsyncKonts : Call("flatMap", f, flatMapM(prog, f))

NextReentrant == Build(MaxSyncChain) \/ CallFlatMapSync \/ Run \/ Interpret

SpecReentrant == Init /\ [][NextReentrant]_vars

\* The methods of ContinuationStack, called in any order on a new stack.
Others == <<leaf, ops, prog, pair, runs, agg>>

CsPushSuccess ==
    /\ Len(cs.stack) < MaxStack
    /\ \E f \in StackKonts :
          cs' = [stack |-> pushSuccess(cs.stack, f, Len(cs.stack) + 1),
                 before |-> cs.stack, op |-> "pushSuccess", returned |-> Undefined]
    /\ UNCHANGED Others

CsPushFailure ==
    /\ Len(cs.stack) < MaxStack
    /\ \E f \in StackKonts :
          cs' = [stack |-> pushFailure(cs.stack, f, Len(cs.stack) + 1),
                 before |-> cs.stack, op |-> "pushFailure", returned |-> Undefined]
    /\ UNCHANGED Others

CsNextSuccess ==
    /\ cs' = [stack |-> nextSuccess(cs.stack).stack, before |-> cs.stack,
              op |-> "nextSuccess", returned |-> nextSuccess(cs.stack).next]
    /\ UNCHANGED Others

CsNextFailure ==
    /\ cs' = [stack |-> nextFailure(cs.stack).stack, before |-> cs.stack,
              op |-> "nextFailure", returned |-> nextFailure(cs.stack).next]
    /\ UNCHANGED Others

NextStack == CsPushSuccess \/ CsPushFailure \/ CsNextSuccess \/ CsNextFailure

SpecStack == Init /\ [][NextStack]_vars

\* The effect with its innermost effect, when that is an Async whose starter
\* passes a result in a later turn, replaced by succeed or fail of the result.
RECURSIVE AsyncReplaced(_)
AsyncReplaced(eff) ==
    CASE eff.type = "FlatMapEffect" -> flatMap(AsyncReplaced(eff.effect), eff.f)
      [] eff.type = "RecoverEffect" -> recover(AsyncReplaced(eff.effect), eff.r)
      [] eff.type = "AsyncEffect" ->
            LET c == eff.completable
            IN IF IsAllStarter(c) \/ ~c.deferred \/ Passes(c) = {} THEN eff
               ELSE IF foldBranch(c.res) = "f" THEN succeed(c.res.value)
               ELSE fail(c.res.value)
      [] OTHER -> eff

\* A second call of run, on the effect given, once the first run is quiet.
RunSecond(effect) ==
    /\ Len(runs) = 1
    /\ runs[1].frames = 0 /\ runs[1].pending = {}
    /\ runs' = Append(runs, NewRun("run", FALSE, effect))
    /\ UNCHANGED <<leaf, ops, prog, pair, agg, cs>>

\* effect.run(complete) a second time, between two turns: the first run may
\* be waiting for a callback.
RunAgain ==
    /\ Len(runs) = 1
    /\ Idle
    /\ runs' = Append(runs, NewRun("run", FALSE, prog))
    /\ UNCHANGED <<leaf, ops, prog, pair, agg, cs>>

\* The effect with succeed(v) or fail(e) in the place of its Async is run.
RunReplaced == AsyncReplaced(prog) # prog /\ RunSecond(AsyncReplaced(prog))

\* effect.filter(p, e).run(complete), effect.validate(f).run(complete) and
\* effect.flatMapP(f, e).run(complete), after effect.run(complete).
RunFilter == \E p \in Preds, e \in ErrorFns : RunSecond(filter(prog, p, e))
RunValidate == \E f \in Validators : RunSecond(validate(prog, f))
RunFlatMapP == \E f \in PromiseFns, e \in ErrorFns : RunSecond(flatMapP(prog, f, e))

NextTwice ==
    \/ Build(MaxTwiceChain) \/ Run \/ RunP \/ RunAgain \/ RunReplaced
    \/ RunFilter \/ RunValidate \/ RunFlatMapP \/ Interpret

SpecTwice == Init /\ [][NextTwice]_vars

\* Two runs in progress at once: while the run of the effect built waits for
\* the callback of an Async, between two turns, run is called again on the same
\* effect or on another one; the callbacks then fire in any order.
MaxConcChain == 2

\* The effects of the other run: each waits at an Async with entries of its own
\* on its stack.
OtherEffects ==
    {recover(flatMap(async(Starter(success(20), TRUE)), SucceedOf(Const(21))),
             SucceedOf(Const(22))),
     flatMap(recover(async(Starter(failure(23), TRUE)), Ret(succeed(24))),
             FailOf(Const(25)))}

RunOther ==
    /\ Len(runs) = 1
    /\ Idle
    /\ \E e \in OtherEffects : runs' = Append(runs, NewRun("run", FALSE, e))
    /\ UNCHANGED <<leaf, ops, prog, pair, agg, cs>>

\* effect.flatMapP(f, e), with combinators before and after it.
MaxPChain == 2

CallFlatMapP ==
    /\ Building(MaxPChain)
    /\ \E f \in PromiseFns, e \in ErrorFns :
          Call("flatMapP", [f |-> f, e |-> e], flatMapP(prog, f, e))

NextFlatMapP == Build(MaxPChain) \/ CallFlatMapP \/ Run \/ Interpret

SpecFlatMapP == Init /\ [][NextFlatMapP]_vars

NextConcurrent == Build(MaxConcChain) \/ Run \/ RunAgain \/ RunOther \/ Interpret

SpecConcurrent == Init /\ [][NextConcurrent]_vars

-----------------------------------------------------------------------------
(* Properties *)

\* The loop of run i has returned and no callback of it is outstanding.
Quiet(i) == runs[i].frames = 0 /\ runs[i].pending = {}

Started == runs # <<>>

Built(l, m, arg) == leaf = l /\ ops = <<[m |-> m, arg |-> arg]>>

\* C1: one call of run invokes the completion callback exactly once, when no
\* user function raises and every starter calls its callback once: the callback
\* is never invoked a second time; whenever the loop has returned with no
\* callback outstanding it has been invoked; and it is eventually invoked.
AtMostOnce == \A i \in DOMAIN runs : runs[i].completeCount <= 1
OnceWhenQuiet ==
    \A i \in DOMAIN runs :
        Quiet(i) /\ runs[i].thrown = <<>> => runs[i].completeCount = 1
Delivered ==
    Started /\ (runs[1].completeCount = 1 \/ runs[1].thrown # <<>>)
C1_CompleteExactlyOnce ==
    /\ []AtMostOnce
    /\ []OnceWhenQuiet
    /\ (Started ~> Delivered)

\* An effect that suspended on a deferred Async was resumed, went through two
\* continuations and completed.
C1_Witness ==
    /\ Started
    /\ leaf.type = "AsyncEffect" /\ leaf.completable.deferred
    /\ Len(runs[1].calls) >= 2
    /\ runs[1].completeCount = 1

\* The errors the next step of run r fails with: r is at a Fail, at an Async
\* whose starter passes a failure to the callback at once, or between turns
\* with a failure to be passed to the callback.
FailsWith(r) ==
    IF r.frames > 0
    THEN IF r.current.type = "FailEffect" THEN {r.current.error}
         ELSE IF /\ r.current.type = "AsyncEffect"
                 /\ ~r.current.completable.deferred
                 /\ r.current.completable.res.type = "failure"
              THEN {r.current.completable.res.value}
              ELSE {}
    ELSE {res.value : res \in {p \in r.pending : p.type = "failure"}}

\* The positions of the entries of a type in a stack, and the topmost of them.
Positions(stk, type) == {j \in DOMAIN stk : stk[j].type = type}
Topmost(S) == CHOOSE j \in S : \A k \in S : k <= j

CallOf(entry, x) == [id |-> entry.id, type |-> entry.type, f |-> entry.f, arg |-> x]

\* C2: when an instruction fails with e, the next continuation invoked is the
\* most recently pushed Failure entry still on the stack, with e; the entries
\* pushed after it are discarded and no discarded entry is ever invoked; with no
\* Failure entry on the stack the run completes with failure(e).  The scenario
\* succeed(1).flatMap(x => succeed(x+1)).flatMap(x => fail(boom)).recover(e =>
\* succeed(-1)) completes with success(-1).
FailureGoesToNearestHandler ==
    \A i \in DOMAIN runs :
        runs'[i] # runs[i] =>
            \A e \in FailsWith(runs[i]) :
                LET r == runs[i]
                    q == runs'[i]
                    F == Positions(r.stack, "Failure")
                IN IF F = {}
                   THEN /\ q.completeCount = r.completeCount + 1
                        /\ q.result = failure(e)
                        /\ q.calls = r.calls
                   ELSE LET j == Topmost(F)
                        IN /\ q.calls = Append(r.calls, CallOf(r.stack[j], e))
                           /\ q.stack = SubSeq(r.stack, 1, j - 1)
                           /\ \A k \in (j + 1)..Len(r.stack) :
                                  r.stack[k].id \in q.dropped
NoDiscardedEntryInvoked ==
    \A i \in DOMAIN runs :
        \A c \in DOMAIN runs[i].calls : runs[i].calls[c].id \notin runs[i].dropped
Scenario ==
    recover(flatMap(flatMap(succeed(1), SucceedOf(Inc)), Ret(fail(11))),
            Ret(succeed(-1)))
ScenarioResult ==
    Started /\ prog = Scenario /\ Quiet(1) =>
        runs[1].completeCount = 1 /\ runs[1].result = success(-1)
C2_FailureShortCircuits ==
    /\ [][FailureGoesToNearestHandler]_vars
    /\ []NoDiscardedEntryInvoked
    /\ []ScenarioResult

\* A failure handler was invoked and a Success entry pushed after it was
\* discarded by the scan that found it.
C2_Witness ==
    /\ Started
    /\ \E c \in DOMAIN runs[1].calls :
          /\ runs[1].calls[c].type = "Failure"
          /\ \E d \in runs[1].dropped : d > runs[1].calls[c].id

\* The scenario of C2 has run to its end.
ScenarioDone == Started /\ prog = Scenario /\ Quiet(1)

\* The values the next step of run r succeeds with: r is at a Succeed, at a
\* Sync whose thunk returns, at an Async whose starter passes a success to the
\* callback at once, or between turns with a success to be passed to the callback.
SucceedsWith(r) ==
    IF r.frames > 0
    THEN IF r.current.type = "SucceedEffect" THEN {r.current.value}
         ELSE IF r.current.type = "SyncEffect" /\ ~r.current.f.throws
              THEN {r.current.f.v}
              ELSE IF /\ r.current.type = "AsyncEffect"
                      /\ ~r.current.completable.deferred
                      /\ r.current.completable.res.type = "success"
                   THEN {r.current.completable.res.value}
                   ELSE {}
    ELSE {res.value : res \in {p \in r.pending : p.type = "success"}}

\* C3: Succeed(a).recover(h) and Succeed(a).mapError(f) complete with
\* success(a) and h, f are never invoked; in general a success goes to the most
\* recently pushed Success entry, the Failure entries above it are discarded
\* and never invoked, and with no Success entry the run completes with the value.
SucceedThenHandler ==
    /\ Started
    /\ leaf.type = "SucceedEffect"
    /\ Len(ops) = 1
    /\ ops[1].m \in {"recover", "mapError"}
HandlerNotInvoked ==
    SucceedThenHandler =>
        /\ runs[1].calls = <<>>
        /\ Quiet(1) =>
              runs[1].completeCount = 1 /\ runs[1].result = success(leaf.value)
SuccessGoesToNearestContinuation ==
    \A i \in DOMAIN runs :
        runs'[i] # runs[i] =>
            \A a \in SucceedsWith(runs[i]) :
                LET r == runs[i]
                    q == runs'[i]
                    S == Positions(r.stack, "Success")
                IN IF S = {}
                   THEN /\ q.completeCount = r.completeCount + 1
                        /\ q.result = success(a)
                        /\ q.calls = r.calls
                        /\ \A k \in DOMAIN r.stack : r.stack[k].id \in q.dropped
                   ELSE LET j == Topmost(S)
                        IN /\ q.calls = Append(r.calls, CallOf(r.stack[j], a))
                           /\ q.stack = SubSeq(r.stack, 1, j - 1)
                           /\ \A k \in (j + 1)..Len(r.stack) :
                                  r.stack[k].id \in q.dropped
C3_SuccessSkipsHandlers ==
    /\ []HandlerNotInvoked
    /\ [][SuccessGoesToNearestContinuation]_vars
    /\ []NoDiscardedEntryInvoked

\* Succeed(a).recover(h) or Succeed(a).mapError(f) has completed and its
\* handler entry was discarded.
C3_Witness ==
    /\ SucceedThenHandler
    /\ Quiet(1)
    /\ runs[1].result = success(leaf.value)
    /\ runs[1].dropped = {1}

\* The terminal Result of an effect that is a single Succeed or Fail.
TerminalOf(eff) ==
    IF eff.type = "SucceedEffect" THEN success(eff.value) ELSE failure(eff.error)

\* The effect run is Fail(e).m(arg), for the method m.
FailThen(m) ==
    /\ Started
    /\ leaf.type = "FailEffect"
    /\ Len(ops) = 1
    /\ ops[1].m = m

\* The one function run r has invoked is a failure handler, invoked with e.
HandlerInvokedOnceWith(r, e) ==
    /\ Len(r.calls) = 1
    /\ r.calls[1].type = "Failure"
    /\ r.calls[1].arg = e

\* C4: Fail(e).recover(h) completes with success(h(e)) and Fail(e).recoverWith(g)
\* completes with the terminal Result of the effect g(e); h, respectively g, is
\* invoked exactly once, with e.
FailRecover ==
    FailThen("recover") /\ ~ApplyFn(ops[1].arg, leaf.error).raised =>
        /\ Len(runs[1].calls) <= 1
        /\ Quiet(1) =>
              /\ runs[1].completeCount = 1
              /\ runs[1].result = success(ApplyFn(ops[1].arg, leaf.error).v)
              /\ HandlerInvokedOnceWith(runs[1], leaf.error)
FailRecoverWith ==
    FailThen("recoverWith") =>
        LET ge == ApplyKont(ops[1].arg, leaf.error)
        IN ~ge.raised /\ ge.eff.type \in {"SucceedEffect", "FailEffect"} =>
              /\ Len(runs[1].calls) <= 1
              /\ Quiet(1) =>
                    /\ runs[1].completeCount = 1
                    /\ runs[1].result = TerminalOf(ge.eff)
                    /\ HandlerInvokedOnceWith(runs[1], leaf.error)
C4_FailRecovered == FailRecover /\ FailRecoverWith

\* Fail(e).recover(h) has completed with success(h(e)).
C4_Witness ==
    /\ FailThen("recover")
    /\ Quiet(1)
    /\ runs[1].result = success(leaf.error + 1)
    /\ runs[1].calls # <<>>

\* Fail(e).recoverWith(g) has completed, with the failure that g(e) fails with.
RecoverWithDone ==
    /\ FailThen("recoverWith")
    /\ Quiet(1)
    /\ runs[1].result = failure(11)
    /\ leaf.error = 10

\* C5: Fail(e).mapError(f) completes with failure(f(e)), the transformed
\* error, and f is invoked exactly once, with e.
C5_FailMapError ==
    FailThen("mapError") /\ ~ApplyFn(ops[1].arg, leaf.error).raised =>
        /\ Len(runs[1].calls) <= 1
        /\ Quiet(1) =>
              /\ runs[1].completeCount = 1
              /\ runs[1].result = failure(ApplyFn(ops[1].arg, leaf.error).v)
              /\ HandlerInvokedOnceWith(runs[1], leaf.error)

\* Fail(e).mapError(f) has completed with an error other than e.
C5_Witness ==
    /\ FailThen("mapError")
    /\ Quiet(1)
    /\ runs[1].result.type = "failure"
    /\ runs[1].result.value # leaf.error
    /\ runs[1].calls # <<>>

\* Both sides of associativity have run to the end.
BothQuiet == Len(runs) = 2 /\ pair # NoPair /\ Quiet(1) /\ Quiet(2)

\* C6: effect.flatMap(f).flatMap(g) and effect.flatMap(a => f(a).flatMap(g))
\* deliver the same terminal Result, the same number of times.
C6_FlatMapAssociative ==
    BothQuiet =>
        /\ runs[1].result = runs[2].result
        /\ runs[1].completeCount = runs[2].completeCount
        /\ runs[1].thrown = runs[2].thrown

\* Both sides have completed with the success of g after f: f and g both ran.
C6_Witness ==
    /\ BothQuiet
    /\ pair = [f |-> SucceedOf(Inc), g |-> SucceedOf(Const(-1))]
    /\ runs[1].result = success(-1)
    /\ runs[2].result = success(-1)
    /\ Len(runs[1].calls) >= 2
    /\ Len(runs[2].calls) >= 2

\* Both sides have completed with the failure f returns, and g never ran.
AssocFailDone ==
    /\ BothQuiet
    /\ pair = [f |-> Ret(fail(11)), g |-> SucceedOf(Inc)]
    /\ leaf = succeed(1)
    /\ ops = <<>>
    /\ runs[1].result = failure(11)
    /\ runs[2].result = failure(11)

\* No Async instruction in the tree of an effect, nor in an effect one of its
\* continuations returns.
RECURSIVE AsyncFree(_), KontAsyncFree(_)
AsyncFree(eff) ==
    CASE eff.type = "AsyncEffect" -> FALSE
      [] eff.type = "FlatMapEffect" -> AsyncFree(eff.effect) /\ KontAsyncFree(eff.f)
      [] eff.type = "RecoverEffect" -> AsyncFree(eff.effect) /\ KontAsyncFree(eff.r)
      [] OTHER -> TRUE
KontAsyncFree(f) ==
    CASE f.k = "ret" -> AsyncFree(f.eff)
      [] f.k = "andThen" -> KontAsyncFree(f.f1) /\ KontAsyncFree(f.g1)
      [] OTHER -> TRUE

\* C7: while an effect with no Async instruction is interpreted, run is never
\* re-entered: one frame of run is active until the run has completed or an
\* exception has left it, however deep the tree; the depth is on the
\* continuation stack.
C7_StackSafe ==
    Started /\ AsyncFree(prog) =>
        \A i \in DOMAIN runs :
            /\ runs[i].frames <= 1
            /\ runs[i].frames = 0 =>
                  runs[i].completeCount = 1 \/ runs[i].thrown # <<>>
            /\ Len(runs[i].stack) <= Len(ops)

\* A chain of the greatest depth with no Async: every node of it is on the
\* continuation stack and one frame of run is active.
C7_Witness ==
    /\ Started
    /\ AsyncFree(prog)
    /\ Len(ops) = MaxChain
    /\ Len(runs[1].stack) = MaxChain
    /\ runs[1].frames = 1

\* Run r is in its loop at a Sync whose thunk raises.
AtThrowingSync(r) ==
    r.frames > 0 /\ r.current.type = "SyncEffect" /\ r.current.f.throws

\* The step from r to q invoked a continuation function, which raised.
ContinuationRaised(r, q) ==
    /\ r.frames > 0
    /\ Len(q.calls) = Len(r.calls) + 1
    /\ ApplyKont(q.calls[Len(q.calls)].f, q.calls[Len(q.calls)].arg).raised

\* The step from r to q let the exception x out of run: no frame of run is
\* left, the completion callback was not invoked, no continuation was invoked
\* with x.
Propagated(r, q, x) ==
    /\ q.thrown = Append(r.thrown, x)
    /\ q.frames = 0
    /\ q.pending = {}
    /\ q.completeCount = r.completeCount
    /\ q.result = r.result
    /\ \A k \in DOMAIN q.calls : k > Len(r.calls) => q.calls[k].arg # x

SyncExceptionPropagates ==
    \A i \in DOMAIN runs :
        runs'[i] # runs[i] /\ AtThrowingSync(runs[i]) =>
            /\ Propagated(runs[i], runs'[i], runs[i].current.f.v)
            /\ runs'[i].calls = runs[i].calls

ContinuationExceptionPropagates ==
    \A i \in DOMAIN runs :
        runs'[i] # runs[i] /\ ContinuationRaised(runs[i], runs'[i]) =>
            LET c == runs'[i].calls[Len(runs'[i].calls)]
            IN Propagated(runs[i], runs'[i], ApplyKont(c.f, c.arg).exn)

\* Once an exception has left run the run does nothing more, and the
\* exception is neither delivered to the completion callback nor passed to a
\* continuation.
ExceptionNeverHandled ==
    \A i \in DOMAIN runs :
        \A j \in DOMAIN runs[i].thrown :
            /\ Quiet(i)
            /\ Len(runs[i].thrown) = 1
            /\ runs[i].result.type # "none" => runs[i].result.value # runs[i].thrown[j]
            /\ \A k \in DOMAIN runs[i].calls : runs[i].calls[k].arg # runs[i].thrown[j]

ContinuationRaisedDone ==
    /\ Started
    /\ leaf.type = "SucceedEffect"
    /\ Len(ops) = 2 /\ ops[1].m = "map" /\ ops[2].m = "recover"
    /\ Len(runs[1].thrown) = 1
    /\ Len(runs[1].calls) = 1
    /\ runs[1].completeCount = 0

\* The effect run is sync(f), for an f that raises, with the methods of ops.
ThrowingSyncRun == Started /\ leaf.type = "SyncEffect" /\ leaf.f.throws

\* C9: sync(f), for an f that raises x, fails with x: sync(f) alone completes
\* with failure(x) and sync(f).mapError(g) completes with failure(g(x)).
C9_SyncFailsWithException ==
    ThrowingSyncRun /\ Quiet(1) =>
        /\ ops = <<>> =>
              runs[1].completeCount = 1 /\ runs[1].result = failure(leaf.f.v)
        /\ Len(ops) = 1 /\ ops[1].m = "mapError" =>
              /\ runs[1].completeCount = 1
              /\ runs[1].result = failure(ApplyFn(ops[1].arg, leaf.f.v).v)

\* sync(f).mapError(g) has completed with failure(x): g was discarded before
\* f was called, and was never invoked.
C9_Witness ==
    /\ ThrowingSyncRun
    /\ Len(ops) = 1 /\ ops[1].m = "mapError"
    /\ Quiet(1)
    /\ runs[1].completeCount = 1
    /\ runs[1].result = failure(leaf.f.v)
    /\ runs[1].calls = <<>>
    /\ runs[1].dropped = {1}

\* sync(f) alone has completed with failure(x).
SyncAloneFailed ==
    /\ ThrowingSyncRun
    /\ ops = <<>>
    /\ Quiet(1)
    /\ runs[1].completeCount = 1
    /\ runs[1].result = failure(leaf.f.v)

\* The promise a settled with the Result res: fulfilled with the value of a
\* success, rejected with the error of a failure.
SettledFrom(p, res) ==
    /\ res.type = "success" => p = [state |-> "fulfilled", value |-> res.value]
    /\ res.type = "failure" => p = [state |-> "rejected", value |-> res.value]

\* C10: runP settles its promise exactly once, from the terminal Result: it
\* resolves with a for success(a), rejects with e for failure(e), never
\* resolves for a failure nor rejects for a success.
C10_RunPSettlesFromResult ==
    \A i \in DOMAIN runs :
        runs[i].mode = "runP" =>
            /\ runs[i].settles <= 1
            /\ runs[i].settles = runs[i].completeCount
            /\ runs[i].completeCount >= 1 => SettledFrom(runs[i].promise, runs[i].result)
            /\ Quiet(i) /\ runs[i].thrown = <<>> => runs[i].settles = 1
            /\ runs[i].promise.state = "fulfilled" => runs[i].result.type = "success"
            /\ runs[i].promise.state = "rejected" =>
                  runs[i].result.type = "failure" \/ runs[i].thrown # <<>>
            /\ runs[i].result.type = "success" => runs[i].promise.state # "rejected"
            /\ runs[i].result.type = "failure" => runs[i].promise.state # "fulfilled"

\* A run of runP has completed with a failure and its promise is rejected with
\* the error of the failure.
C10_Witness ==
    /\ Started
    /\ runs[1].mode = "runP"
    /\ Quiet(1)
    /\ runs[1].result.type = "failure"
    /\ runs[1].promise = [state |-> "rejected", value |-> runs[1].result.value]
    /\ runs[1].settles = 1

\* A run of runP has completed with a success, after a deferred callback, and
\* its promise is fulfilled with the value.
RunPFulfilled ==
    /\ Started
    /\ runs[1].mode = "runP"
    /\ Quiet(1)
    /\ leaf.type = "AsyncEffect" /\ leaf.completable.deferred
    /\ runs[1].result.type = "success"
    /\ runs[1].promise = [state |-> "fulfilled", value |-> runs[1].result.value]

\* C11: an exception thrown at any point while an effect started with runP is
\* run rejects the promise with that exception, in the synchronous part of the
\* run as well as after an Async resumption.
C11_RunPRejectsWithException ==
    \A i \in DOMAIN runs :
        runs[i].mode = "runP" /\ runs[i].thrown # <<>> =>
            runs[i].promise = [state |-> "rejected", value |-> runs[i].thrown[1]]

\* A continuation invoked by the deferred callback of an Async has raised in a
\* run of runP: the exception left the callback and the promise is pending.
C11_Witness ==
    /\ Started
    /\ runs[1].mode = "runP"
    /\ leaf.type = "AsyncEffect" /\ leaf.completable.deferred
    /\ Len(runs[1].thrown) = 1
    /\ Len(runs[1].calls) = 1
    /\ Quiet(1)
    /\ runs[1].promise.state = "pending"

\* A continuation has raised in the synchronous part of a run of runP and the
\* promise is rejected with the exception.
RunPRejectedInExecutor ==
    /\ Started
    /\ runs[1].mode = "runP"
    /\ leaf.type = "SucceedEffect"
    /\ Len(runs[1].thrown) = 1
    /\ runs[1].promise = [state |-> "rejected", value |-> runs[1].thrown[1]]

\* The positions in the calls of run r at which the function manage gave to
\* flatMap was invoked: acquire succeeded, with the argument of the call.
ManageCalls(r) == {k \in DOMAIN r.calls : r.calls[k].f.k = "manage"}

\* The effect run is manage(acquire, release, f) itself.
ManageOutermost == Started /\ ops # <<>> /\ ops[Len(ops)].m = "manage"

\* The outcome of the body: of the effect f(a), or the exception f(a) raised.
BodyOutcome(f, a) ==
    LET r == ApplyKont(f, a)
    IN IF r.raised THEN failure(r.exn)
       ELSE CASE r.eff.type = "SucceedEffect" -> success(r.eff.value)
              [] r.eff.type = "FailEffect" -> failure(r.eff.error)
              [] r.eff.type = "AsyncEffect" -> r.eff.completable.res

\* C12: in a run of manage(acquire, release, body) in which acquire succeeds
\* with a, release is invoked with a exactly once, whether the body effect
\* succeeds, fails, or body(a) raises; the terminal Result is the body's
\* success, the body's failure, or failure of the exception raised.
C12_ReleasedOnce ==
    \A i \in DOMAIN runs :
        \A k \in ManageCalls(runs[i]) :
            LET a == runs[i].calls[k].arg
            IN /\ Len(runs[i].released) <= 1
               /\ \A j \in DOMAIN runs[i].released : runs[i].released[j] = a
               /\ Quiet(i) => runs[i].released = <<a>>
               /\ Quiet(i) /\ ManageOutermost =>
                     /\ runs[i].completeCount = 1
                     /\ runs[i].result = BodyOutcome(ops[Len(ops)].arg, a)

\* manage has run to the end with a body effect that failed: release was
\* invoked once with the resource and the run completed with the body's error.
C12_Witness ==
    /\ ManageOutermost
    /\ ops[Len(ops)].arg = Ret(fail(11))
    /\ Quiet(1)
    /\ ManageCalls(runs[1]) # {}
    /\ Len(runs[1].released) = 1
    /\ runs[1].result = failure(11)

\* The same with a body effect that succeeded, with a value made from the
\* resource.
ManageBodySucceeded ==
    /\ ManageOutermost
    /\ ops[Len(ops)].arg = SucceedOf(Inc)
    /\ Quiet(1)
    /\ \E a \in {1, 2} :
          runs[1].released = <<a>> /\ runs[1].result = success(a + 1)

\* The same with a body function that raised, in the interpreter without
\* try/catch.
ManageBodyRaised ==
    /\ ManageOutermost
    /\ ops[Len(ops)].arg = RaiseK(99)
    /\ ~runs[1].catches
    /\ Quiet(1)
    /\ Len(runs[1].released) = 1
    /\ runs[1].result = failure(99)
    /\ runs[1].thrown = <<>>

\* The leaf effect fails by itself: a Fail, or an Async whose starter passes a
\* failure to the callback.
LeafFails ==
    \/ leaf.type = "FailEffect"
    \/ leaf.type = "AsyncEffect" /\ leaf.completable.res.type = "failure"
LeafError ==
    IF leaf.type = "FailEffect" THEN leaf.error ELSE leaf.completable.res.value

\* manage was called with the leaf effect as acquire, and the leaf fails.
AcquireFails == Started /\ ops # <<>> /\ ops[1].m = "manage" /\ LeafFails

\* C13: in a run of manage in which acquire fails with e, neither release nor
\* body is ever invoked and the run completes with failure(e); release is
\* never invoked in a run in which the body function was not.
C13_NoReleaseWithoutAcquire ==
    /\ \A i \in DOMAIN runs :
          ManageCalls(runs[i]) = {} => runs[i].released = <<>>
    /\ AcquireFails =>
          /\ ManageCalls(runs[1]) = {}
          /\ runs[1].released = <<>>
          /\ Quiet(1) /\ ManageOutermost =>
                /\ runs[1].completeCount = 1
                /\ runs[1].result = failure(LeafError)
                /\ runs[1].calls = <<>>

\* manage has run to the end with an acquire whose callback was passed a
\* failure: nothing was invoked and the failure was delivered.
C13_Witness ==
    /\ AcquireFails
    /\ ManageOutermost
    /\ leaf.type = "AsyncEffect"
    /\ Quiet(1)
    /\ runs[1].result = failure(LeafError)
    /\ runs[1].calls = <<>>
    /\ runs[1].dropped = {1}

\* The body effects of the calls of the function manage gave to flatMap in
\* run r that are an Async whose starter defers its callback.
DeferredBodies(r) ==
    {ApplyKont(r.calls[k].f.body, r.calls[k].arg).eff : k \in
        {j \in ManageCalls(r) :
            LET b == ApplyKont(r.calls[j].f.body, r.calls[j].arg)
            IN /\ ~b.raised
               /\ b.eff.type = "AsyncEffect"
               /\ b.eff.completable.deferred}}

\* A step that invokes release: the body function has been invoked, before
\* this step or by the call of this step that releases because the body
\* function raised; and when the body effect is an Async that defers, the
\* step is the firing of its callback.
ReleaseAfterBody ==
    \A i \in DOMAIN runs :
        Len(runs'[i].released) > Len(runs[i].released) =>
            /\ ManageCalls(runs'[i]) # {}
            /\ ManageCalls(runs[i]) = {} =>
                  LET c == runs'[i].calls[Len(runs'[i].calls)]
                  IN c.f.k = "manage" /\ ApplyKont(c.f.body, c.arg).raised
            /\ \A b \in DeferredBodies(runs'[i]) :
                  /\ runs[i].frames = 0
                  /\ b.completable.res \in runs[i].pending
                  /\ b.completable.res \notin runs'[i].pending

\* While the callback of the body's Async has not fired, nothing is released:
\* here the body's Async is the only one of the effect.
NotReleasedWhilePending ==
    ManageOutermost /\ AsyncFree(prog.effect) =>
        (runs[1].pending # {} => runs[1].released = <<>>)

\* C14: in a run of manage the body function is invoked before release, and
\* release only after the body effect has reached its outcome: not before the
\* callback of a body effect that is an Async has fired.
C14_ReleaseAfterBodyOutcome ==
    /\ [][ReleaseAfterBody]_vars
    /\ []NotReleasedWhilePending

\* The body function has been invoked and its Async has been started, its
\* callback has not fired, and nothing is released.
C14_Witness ==
    /\ ManageOutermost
    /\ AsyncFree(prog.effect)
    /\ DeferredBodies(runs[1]) # {}
    /\ runs[1].pending # {}
    /\ runs[1].released = <<>>

\* The callback of the body's Async has fired and the resource is released.
ReleasedAfterCallback ==
    /\ ManageOutermost
    /\ DeferredBodies(runs[1]) # {}
    /\ Quiet(1)
    /\ Len(runs[1].released) = 1

\* The run of all(arr) is over: every child was started and no run has a
\* frame or a callback outstanding.
AllDone ==
    /\ agg.begun
    /\ Len(runs) = 1 + Len(agg.arr)
    /\ \A j \in DOMAIN runs : Quiet(j)

\* C15: the run of all(arr) completes with failure(err) for the first child
\* failure observed and discards every outcome that arrives later: its
\* completion callback is invoked at most once; all([succeed(1), fail(err),
\* succeed(3)]) completes with failure(err).
C15_AllCompletesOnce ==
    agg.begun =>
        /\ runs[1].completeCount <= 1
        /\ agg.hasFailed => runs[1].result.type = "failure"
        /\ AllDone /\ agg.arr = <<succeed(1), fail(10), succeed(3)>> =>
              runs[1].result = failure(10)

\* all([fail(10), e]) with an e that fails later with 11: the completion
\* callback was invoked for each failure, last with failure(11).
C15_Witness ==
    /\ AllDone
    /\ Len(agg.arr) = 2
    /\ agg.arr[1] = fail(10)
    /\ runs[1].completeCount = 2
    /\ runs[1].result = failure(11)

\* all([succeed(1), fail(10), succeed(3)]) has completed, once, with
\* failure(10).
AllWithFailDone ==
    /\ AllDone
    /\ agg.arr = <<succeed(1), fail(10), succeed(3)>>
    /\ runs[1].completeCount = 1
    /\ runs[1].result = failure(10)
    /\ agg.buffer = <<1>>

\* Every child of all has completed with a success.
AllChildrenSucceeded ==
    /\ AllDone
    /\ \A j \in DOMAIN runs : j > 1 => runs[j].result.type = "success"

\* C16: when every child succeeds the run of all(arr) completes with success
\* of the list whose i-th element is the value of the i-th effect of arr,
\* whatever the order in which the callbacks of the children fire.
C16_AllKeepsInputOrder ==
    AllChildrenSucceeded =>
        /\ runs[1].completeCount = 1
        /\ runs[1].result.type = "success"
        /\ Len(runs[1].result.value) = Len(agg.arr)
        /\ \A k \in DOMAIN agg.arr :
              runs[1].result.value[k] = runs[k + 1].result.value

\* all([e, succeed(3)]) with an e that succeeds later with 1 has completed
\* with the values in the order of completion.
C16_Witness ==
    /\ AllChildrenSucceeded
    /\ agg.arr = <<async(Starter(success(1), TRUE)), succeed(3)>>
    /\ runs[1].completeCount = 1
    /\ runs[1].result.type = "success"
    /\ runs[1].result.value = <<3, 1>>

NothingThrown == \A j \in DOMAIN runs : runs[j].thrown = <<>>

\* A run started while all runs is the run of the next effect of arr, on a
\* stack of its own that is empty, and no other run changes.
ChildStartedFresh ==
    agg.begun /\ Len(runs') > Len(runs) =>
        /\ Len(runs') = Len(runs) + 1
        /\ runs'[Len(runs')] = NewRun("run", FALSE, agg.arr[Len(runs)])
        /\ runs'[Len(runs')].stack = <<>>
        /\ \A j \in DOMAIN runs : runs'[j] = runs[j]

\* No effect of arr is run twice, and once the starter of all has returned
\* every effect of arr has been run, whatever failed; in the end every child
\* has completed.
EveryChildStartedOnce ==
    agg.begun =>
        /\ Len(runs) <= 1 + Len(agg.arr)
        /\ agg.started = Len(runs) - 1
        /\ runs[1].frames = 0 /\ NothingThrown => Len(runs) = 1 + Len(agg.arr)
        /\ AllDone /\ NothingThrown =>
              \A j \in DOMAIN runs : j > 1 => runs[j].completeCount = 1

\* C17: running all(arr) starts the run of every child exactly once, each on
\* a new continuation stack, the children after one that has failed
\* included: a failure of a child does not stop or abort a sibling's run.
C17_AllRunsEveryChild ==
    /\ [][ChildStartedFresh]_vars
    /\ []EveryChildStartedOnce

\* The first child of three failed at once; the two after it were run and
\* have completed, one of them with a success after its callback fired.
C17_Witness ==
    /\ AllDone
    /\ Len(agg.arr) = 3
    /\ agg.arr[1] = fail(10)
    /\ agg.arr[2] = async(Starter(success(5), TRUE))
    /\ runs[3].result = success(5)
    /\ runs[4].completeCount = 1

\* chain(leaf, fs) and leaf.flatMap(fs[1])...flatMap(fs[n]) have both run to
\* the end.
ChainDone == Len(runs) = 2 /\ ops # <<>> /\ Quiet(1) /\ Quiet(2)

\* The calls of run r of the functions on its Success entries, in order:
\* the functions given to flatMap, here those of the chain.
IsSuccessCall(c) == c.type = "Success"
SuccessCalls(r) == SelectSeq(r.calls, IsSuccessCall)

\* The functions run r has invoked are the first functions of fs, in the
\* order of fs, each once.
InListOrder(r, fs) ==
    /\ Len(SuccessCalls(r)) <= Len(fs)
    /\ \A k \in DOMAIN SuccessCalls(r) : SuccessCalls(r)[k].f = fs[k]

\* Nothing of fs is invoked after a function whose effect is a Fail, nor when
\* the run invoked none because the first effect failed.
LaterSkipped(r, fs) ==
    /\ \A k \in DOMAIN SuccessCalls(r) :
          LET c == SuccessCalls(r)[k]
          IN ApplyKont(c.f, c.arg).eff.type = "FailEffect" =>
                Len(SuccessCalls(r)) = k
    /\ /\ r.frames = 0 /\ r.pending = {} /\ r.thrown = <<>>
       /\ Len(SuccessCalls(r)) < Len(fs)
       => r.result.type = "failure"

\* C18: chain(e, [f1, ..., fn]) is the left fold of flatMap: running it gives
\* the same terminal Result as running e.flatMap(f1)...flatMap(fn), the
\* functions are applied in list order, and a failure of e or of the effect
\* of an fi skips every later function.
C18_ChainIsFlatMapFold ==
    /\ Started /\ ops # <<>> =>
          /\ InListOrder(runs[1], ops[1].arg)
          /\ LaterSkipped(runs[1], ops[1].arg)
    /\ ChainDone =>
          /\ runs[1].result = runs[2].result
          /\ runs[1].completeCount = runs[2].completeCount
          /\ runs[1].thrown = runs[2].thrown

\* A chain of three functions, the second of which returns a Fail: both runs
\* completed with that failure after two calls, the third function skipped.
C18_Witness ==
    /\ ChainDone
    /\ ops[1].arg = <<SucceedOf(Inc), Ret(fail(11)), SucceedOf(Inc)>>
    /\ Len(runs[1].calls) = 2
    /\ runs[1].result = failure(11)
    /\ runs[2].result = failure(11)

\* A chain of three functions that all ran, the second after the callback
\* of an Async.
ChainAllApplied ==
    /\ ChainDone
    /\ ops[1].arg = <<Ret(async(Starter(success(5), TRUE))), SucceedOf(Inc), SucceedOf(Inc)>>
    /\ Len(runs[1].calls) = 3
    /\ runs[1].result = success(7)

\* Run r is in its loop at an instruction the switch has no case for.
AtUnknown(r) ==
    r.frames > 0 /\ r.current # Null /\ r.current.type \notin KnownTypes

UnknownRaises ==
    \A i \in DOMAIN runs :
        runs'[i] # runs[i] /\ AtUnknown(runs[i]) =>
            /\ Propagated(runs[i], runs'[i], UnknownTypeError)
            /\ runs'[i].calls = runs[i].calls
            /\ runs'[i].stack = runs[i].stack

UnknownNotRecovered ==
    Started /\ leaf = UnknownEffect =>
        /\ runs[1].completeCount = 0
        /\ runs[1].calls = <<>>
        /\ runs[1].frames = 0 => runs[1].thrown = <<UnknownTypeError>>

ReturnedNearest(op, type) ==
    cs.op = op =>
        LET S == Positions(cs.before, type)
        IN IF S = {}
           THEN cs.returned = Undefined /\ cs.stack = <<>>
           ELSE /\ cs.returned = cs.before[Topmost(S)]
                /\ cs.stack = SubSeq(cs.before, 1, Topmost(S) - 1)

\* C20: for every stack content nextSuccess (nextFailure) returns the entry
\* of kind Success (Failure) pushed last, removes it and every entry above
\* it and leaves the entries below unchanged and in order; with no entry of
\* the kind it returns none and leaves the stack empty.
C20_NextReturnsNearest ==
    /\ ReturnedNearest("nextSuccess", "Success")
    /\ ReturnedNearest("nextFailure", "Failure")

\* nextSuccess on a stack of a Failure, a Success and a Failure above it: the
\* Success was returned and the Failure at the bottom is what is left.
C20_Witness ==
    /\ cs.op = "nextSuccess"
    /\ Len(cs.before) = 3
    /\ cs.before[1].type = "Failure"
    /\ cs.before[2].type = "Success"
    /\ cs.before[3].type = "Failure"
    /\ cs.returned = cs.before[2]
    /\ cs.stack = <<cs.before[1]>>

\* nextFailure on a stack of Success entries only: nothing was returned and
\* the stack is empty.
NextFailureFoundNone ==
    /\ cs.op = "nextFailure"
    /\ Len(cs.before) = MaxStack
    /\ Positions(cs.before, "Failure") = {}
    /\ cs.returned = Undefined
    /\ cs.stack = <<>>

\* The thunk or starter that interpreting eff from its root invokes first, if
\* it invokes one: the one at the innermost effect of the FlatMap and Recover
\* nodes.
RECURSIVE WorkOf(_)
WorkOf(eff) ==
    CASE eff.type = "SyncEffect" -> <<eff.f>>
      [] eff.type = "AsyncEffect" -> <<eff.completable>>
      [] eff.type \in {"FlatMapEffect", "RecoverEffect"} -> WorkOf(eff.effect)
      [] OTHER -> <<>>

\* The thunks and starters of the effects that the calls returned, in order.
RECURSIVE WorkOfCalls(_)
WorkOfCalls(calls) ==
    IF calls = <<>> THEN <<>>
    ELSE LET c == calls[Len(calls)]
         IN WorkOfCalls(SubSeq(calls, 1, Len(calls) - 1))
                \o WorkOf(ApplyKont(c.f, c.arg).eff)

\* What run r has invoked, with what the effect it is at will invoke, is what
\* the effects it has reached hold: the effect it was called on and those its
\* continuations returned, each once.
PerformedOncePerReach(r) ==
    r.performed \o WorkOf(r.current) = WorkOf(r.effect) \o WorkOfCalls(r.calls)

\* A call of a combinator changes the effect built and starts nothing.
BuildsOnly == ops' # ops => runs = <<>> /\ runs' = <<>>

\* C22: building an effect invokes no thunk, starter or continuation; a run
\* invokes the thunk or starter of every effect it reaches exactly once, and
\* never one of an effect it does not reach, such as the effect of a
\* continuation that a failure passed over.
C22_NothingRunsBeforeReached ==
    /\ [][BuildsOnly]_vars
    /\ [](\A i \in DOMAIN runs : PerformedOncePerReach(runs[i]))

\* fail(10).flatMap(a => async(..)): the run has completed and the starter has
\* not been invoked.
C22_Witness ==
    /\ Built(fail(10), "flatMap", Ret(async(Starter(success(5), TRUE))))
    /\ Started
    /\ Quiet(1)
    /\ runs[1].completeCount = 1
    /\ runs[1].performed = <<>>

\* sync(() => 1).flatMap(a => async(..)): the thunk and the starter have been
\* invoked, once each.
ThunkAndStarterPerformed ==
    /\ Built(sync(Thunk(1)), "flatMap", Ret(async(Starter(success(5), TRUE))))
    /\ Started
    /\ Quiet(1)
    /\ runs[1].performed = <<Thunk(1), Starter(success(5), TRUE)>>

\* w is a starter given to async, not a thunk given to sync.
IsStarter(w) == "deferred" \in DOMAIN w

\* The call of run i has returned, and not by an exception.
HasReturned(i) == runs[i].frames = 0 /\ runs[i].thrown = <<>>

\* The last thing run r invoked is a starter that has not called its callback
\* yet.
SuspendedAtAsync(r) ==
    /\ r.performed # <<>>
    /\ IsStarter(r.performed[Len(r.performed)])
    /\ r.performed[Len(r.performed)].deferred
    /\ r.pending # {}

\* C28: the run of an effect with no Async instruction ends, and when the call
\* of run returns the completion callback has been invoked; a call of run that
\* returns with the completion callback not invoked has stopped at an Async.
C28_OnlyAsyncSuspends ==
    /\ [](Started /\ AsyncFree(prog) /\ HasReturned(1) => runs[1].completeCount = 1)
    /\ [](\A i \in DOMAIN runs :
            HasReturned(i) /\ runs[i].completeCount = 0 => SuspendedAtAsync(runs[i]))
    /\ (Started /\ AsyncFree(prog) ~> Started /\ runs[1].frames = 0)

\* sync(() => 1).map(inc).recover(..): the call of run has returned and the
\* result had been delivered, with no Async on the way.
C28_Witness ==
    /\ Started
    /\ leaf = sync(Thunk(1))
    /\ Len(ops) = MaxFairChain
    /\ AsyncFree(prog)
    /\ HasReturned(1)
    /\ runs[1].completeCount = 1
    /\ Len(runs[1].calls) >= 1

\* The call of run has returned at a deferred Async with nothing delivered.
ReturnedAtAsync ==
    /\ Started
    /\ HasReturned(1)
    /\ runs[1].completeCount = 0
    /\ SuspendedAtAsync(runs[1])
    /\ runs[1].stack # <<>>

\* A step of a run changes neither the effect built nor the effect any run
\* was called on.
RunKeepsEffect ==
    runs' # runs =>
        /\ prog' = prog
        /\ leaf' = leaf
        /\ \A i \in DOMAIN runs : runs'[i].effect = runs[i].effect

\* A call of run begins at the effect it was called on, with an empty stack
\* and nothing invoked, and leaves the runs before it as they are.
OwnEmptyStack ==
    Len(runs') > Len(runs) =>
        LET r == runs'[Len(runs')]
        IN /\ r.stack = <<>>
           /\ r.current = r.effect
           /\ r.performed = <<>> /\ r.calls = <<>>
           /\ \A i \in DOMAIN runs : runs'[i] = runs[i]

\* A step of one run leaves the other run as it is.
OneRunPerStep ==
    \A i, j \in DOMAIN runs :
        i # j /\ runs'[i] # runs[i] => runs'[j] = runs[j]

\* Two runs have been started and both are quiet.
TwoQuiet == Len(runs) = 2 /\ Quiet(1) /\ Quiet(2)

\* The same effect value has been run twice.
SameRunTwice == Len(runs) = 2 /\ runs[2].effect = runs[1].effect

\* Two runs invoked the same thunks, starters and continuations and delivered
\* the same.
SameOutcome(r, q) ==
    /\ r.result = q.result
    /\ r.completeCount = q.completeCount
    /\ r.performed = q.performed
    /\ r.calls = q.calls
    /\ r.thrown = q.thrown

\* C23: a run leaves the Effect it interprets unchanged; every call of run
\* starts from an empty continuation stack of its own, which no other run
\* touches; two runs of the same effect each invoke every thunk and starter
\* they reach once, and deliver equal results.
C23_EffectsAreReusable ==
    /\ [][RunKeepsEffect /\ OwnEmptyStack /\ OneRunPerStep]_vars
    /\ [](SameRunTwice =>
            /\ PerformedOncePerReach(runs[1]) /\ PerformedOncePerReach(runs[2])
            /\ TwoQuiet => SameOutcome(runs[1], runs[2]))

\* async(..).map(inc) was run a second time while the first run was waiting
\* for its callback with map's function on its stack; both runs completed
\* with 2.
C23_Witness ==
    /\ Built(async(Starter(success(1), TRUE)), "map", Inc)
    /\ SameRunTwice
    /\ TwoQuiet
    /\ runs[1].result = success(2)
    /\ runs[2].result = success(2)
    /\ runs[2].performed = <<Starter(success(1), TRUE)>>

\* The second run has begun while the first waits with an entry on its stack.
SecondRunWhileFirstWaits ==
    /\ SameRunTwice
    /\ runs[1].pending # {}
    /\ runs[1].stack # <<>>
    /\ runs[2].stack = <<>>
    /\ runs[2].current = prog

\* The number of times run r has invoked the function f.
CallsOf(r, f) == Cardinality({k \in DOMAIN r.calls : r.calls[k].f = f})

\* The first of two runs, the run of the effect alone, delivered a success;
\* delivered a failure.
SourceSucceeded ==
    Len(runs) = 2 /\ runs[1].thrown = <<>> /\ runs[1].result.type = "success"
SourceFailed ==
    Len(runs) = 2 /\ runs[1].thrown = <<>> /\ runs[1].result.type = "failure"

\* Run i is quiet and has delivered res, once.
DeliveredOnce(i, res) ==
    Quiet(i) => runs[i].completeCount = 1 /\ runs[i].result = res

\* C24: where effect succeeds with a, effect.filter(p, e) completes with
\* success(a) when p(a) and with failure(e(a)) otherwise; where effect fails,
\* the function of filter is not invoked, so neither p nor e is, and the
\* failure of effect is delivered.
C24_Filter ==
    \A p \in Preds, e \in ErrorFns :
        Len(runs) = 2 /\ runs[2].effect = filter(runs[1].effect, p, e) =>
            LET a == runs[1].result.value
                n == CallsOf(runs[2], FilterK(p, e))
            IN /\ SourceSucceeded =>
                    /\ n <= 1
                    /\ Quiet(2) => n = 1
                    /\ DeliveredOnce(2, IF ApplyPred(p, a) THEN success(a)
                                        ELSE failure(ApplyFn(e, a).v))
               /\ SourceFailed =>
                    /\ n = 0
                    /\ DeliveredOnce(2, runs[1].result)

\* succeed(2).filter(a => a <= 1, a => a + 1) has completed with failure(3).
C24_Witness ==
    /\ leaf = succeed(2) /\ ops = <<>>
    /\ Len(runs) = 2
    /\ runs[2].effect = filter(prog, AtMost(1), Inc)
    /\ Quiet(2)
    /\ runs[2].result = failure(3)

\* An effect of two combinators that succeeds with 5 after an Async, filtered
\* by a predicate that holds: success(5).
FilterPassed ==
    /\ Len(ops) = MaxTwiceChain
    /\ SourceSucceeded
    /\ runs[1].performed # <<>>
    /\ runs[2].effect = filter(prog, AtMost(5), Const(7))
    /\ Quiet(2)
    /\ runs[2].result = success(5)

\* fail(10).filter(..) has completed with failure(10), the function of filter
\* not invoked.
FilterSkipped ==
    /\ leaf = fail(10) /\ ops = <<>>
    /\ Len(runs) = 2
    /\ runs[2].effect = filter(prog, AtMost(5), Inc)
    /\ Quiet(2)
    /\ runs[2].result = failure(10)
    /\ runs[2].calls = <<>>

\* C25: where effect succeeds with a, effect.validate(f) completes with
\* success(b) when f(a) is success(b) and with failure(err) when f(a) is
\* failure(err); where effect fails, f is not invoked and the failure of
\* effect is delivered.
C25_Validate ==
    \A f \in Validators :
        Len(runs) = 2 /\ runs[2].effect = validate(runs[1].effect, f) =>
            LET a == runs[1].result.value
                n == CallsOf(runs[2], ValidateK(f))
            IN /\ SourceSucceeded =>
                    /\ n <= 1
                    /\ Quiet(2) => n = 1
                    /\ DeliveredOnce(2, ApplyValidator(f, a))
               /\ SourceFailed =>
                    /\ n = 0
                    /\ DeliveredOnce(2, runs[1].result)

\* succeed(2).validate(a => a <= 1 ? success(a + 1) : failure(7)) has
\* completed with failure(7).
C25_Witness ==
    /\ leaf = succeed(2) /\ ops = <<>>
    /\ Len(runs) = 2
    /\ runs[2].effect = validate(prog, Validator(AtMost(1), Inc, Const(7)))
    /\ Quiet(2)
    /\ runs[2].result = failure(7)

\* succeed(1).validate(a => a <= 1 ? success(a + 1) : failure(7)) has
\* completed with success(2): the value f returned, not the value of the
\* effect.
ValidatePassed ==
    /\ leaf = succeed(1) /\ ops = <<>>
    /\ Len(runs) = 2
    /\ runs[2].effect = validate(prog, Validator(AtMost(1), Inc, Const(7)))
    /\ Quiet(2)
    /\ runs[2].result = success(2)

\* An effect that fails after an Async, validated: the failure is delivered
\* and f has not been invoked.
ValidateSkipped ==
    /\ SourceFailed
    /\ runs[1].performed # <<>>
    /\ \E f \in Validators : runs[2].effect = validate(prog, f)
    /\ Quiet(2)
    /\ runs[2].result = runs[1].result
    /\ runs[2].performed # <<>>

\* C26: where effect succeeds with a, effect.flatMapP(f, e) completes with
\* success(b) when the promise f(a) resolves with b and with failure(e(err))
\* when it rejects with err; where effect fails, the function of flatMapP is
\* not invoked, so f is not, and the failure of effect is delivered.
C26_FlatMapP ==
    \A f \in PromiseFns, e \in ErrorFns :
        Len(runs) = 2 /\ runs[2].effect = flatMapP(runs[1].effect, f, e) =>
            LET a == runs[1].result.value
                p == ApplyPromiseFn(f, a)
                n == CallsOf(runs[2], FlatMapPK(f, e))
            IN /\ SourceSucceeded =>
                    /\ n <= 1
                    /\ Quiet(2) => n = 1
                    /\ DeliveredOnce(2, IF p.state = "fulfilled" THEN success(p.value)
                                        ELSE failure(ApplyFn(e, p.value).v))
               /\ SourceFailed =>
                    /\ n = 0
                    /\ Quiet(2) => runs[2].performed = runs[1].performed
                    /\ DeliveredOnce(2, runs[1].result)

\* succeed(1).flatMapP(a => Promise.reject(12), err => err + 1) has completed
\* with failure(13), in a turn after the one of the call of run.
C26_Witness ==
    /\ leaf = succeed(1) /\ ops = <<>>
    /\ Len(runs) = 2
    /\ runs[2].effect = flatMapP(prog, Rejecting(12), Inc)
    /\ Quiet(2)
    /\ runs[2].performed = <<Starter(failure(13), TRUE)>>
    /\ runs[2].result = failure(13)

\* sync(() => 1).flatMapP(a => Promise.resolve(a + 1), ..) has completed with
\* success(2).
FlatMapPResolved ==
    /\ leaf = sync(Thunk(1)) /\ ops = <<>>
    /\ Len(runs) = 2
    /\ runs[2].effect = flatMapP(prog, Resolving(Inc), Const(7))
    /\ Quiet(2)
    /\ runs[2].result = success(2)

\* fail(10).flatMapP(..) has completed with failure(10) and invoked nothing.
FlatMapPSkipped ==
    /\ leaf = fail(10) /\ ops = <<>>
    /\ Len(runs) = 2
    /\ \E f \in PromiseFns, e \in ErrorFns : runs[2].effect = flatMapP(prog, f, e)
    /\ Quiet(2)
    /\ runs[2].result = failure(10)
    /\ runs[2].calls = <<>> /\ runs[2].performed = <<>>

\* The second run is of the effect of the first with succeed(v) or fail(e) in
\* the place of the Async at its leaf, whose starter passes success(v) or
\* failure(e) once, in a later turn.
ReplacedRun ==
    /\ Len(runs) = 2
    /\ runs[2].effect # runs[1].effect
    /\ runs[2].effect = AsyncReplaced(runs[1].effect)

\* Run r has returned at the Async at the leaf of the effect built and waits
\* for the callback.
SuspendedAtLeaf(r) ==
    /\ r.effect = prog
    /\ AsyncReplaced(prog) # prog
    /\ r.frames = 0
    /\ r.performed = <<leaf.completable>>
    /\ r.pending = Passes(leaf.completable)

\* Every continuation pushed before the suspension is on the stack: one for
\* each combinator, none discarded, none invoked.
AllPushedKept(r) ==
    /\ Len(r.stack) = Len(ops)
    /\ r.nextId = Len(ops) + 1
    /\ r.dropped = {}
    /\ r.calls = <<>>

\* A callback that fires works on the stack the run had when it suspended:
\* what it leaves of the stack, what it discards and the entry it invokes
\* make up that stack.
ResumesOnSameStack ==
    \A i \in DOMAIN runs :
        runs[i].frames = 0 /\ runs'[i].pending # runs[i].pending =>
            /\ Len(runs'[i].stack) <= Len(runs[i].stack)
            /\ SubSeq(runs[i].stack, 1, Len(runs'[i].stack)) = runs'[i].stack
            /\ Len(runs[i].stack) =
                  Len(runs'[i].stack)
                  + Cardinality(runs'[i].dropped \ runs[i].dropped)
                  + (Len(runs'[i].calls) - Len(runs[i].calls))

\* C21: an Async whose callback is invoked once, after run has returned, with
\* success(v) or failure(e) continues the run as Succeed(v) or Fail(e) at its
\* place would: the continuations pushed before the suspension are all on the
\* stack while the run waits, the callback works on that stack, and the run
\* invokes the same continuations with the same arguments and delivers the
\* same terminal Result as the run of the effect with the Async replaced.
C21_AsyncResumesAsSucceedOrFail ==
    /\ [][ResumesOnSameStack]_vars
    /\ [](\A i \in DOMAIN runs : SuspendedAtLeaf(runs[i]) => AllPushedKept(runs[i]))
    /\ [](ReplacedRun /\ TwoQuiet =>
            /\ runs[1].result = runs[2].result
            /\ runs[1].completeCount = runs[2].completeCount
            /\ runs[1].calls = runs[2].calls
            /\ runs[1].dropped = runs[2].dropped
            /\ runs[1].stack = runs[2].stack
            /\ runs[1].thrown = runs[2].thrown
            /\ runs[1].performed = <<leaf.completable>> \o runs[2].performed)

\* async(cb => later(cb(failure(10)))) under two combinators of which the
\* failure passes one over and invokes the other: both runs are quiet with
\* the same result, the second being the run with fail(10) for the Async.
C21_Witness ==
    /\ leaf = async(Starter(failure(10), TRUE))
    /\ Len(ops) = MaxTwiceChain
    /\ ReplacedRun
    /\ runs[2].effect.effect.effect = fail(10)
    /\ TwoQuiet
    /\ runs[1].dropped # {}
    /\ Len(runs[1].calls) = 1
    /\ runs[1].completeCount = 1
    /\ runs[1].result = runs[2].result

\* The first run waits at async(cb => later(cb(success(1)))) with two
\* continuations on its stack.
WaitingWithFullStack ==
    /\ leaf = async(Starter(success(1), TRUE))
    /\ Len(ops) = MaxTwiceChain
    /\ Started
    /\ SuspendedAtLeaf(runs[1])
    /\ Len(runs[1].stack) = MaxTwiceChain

\* The effect run is asyncP(lazy) with the combinators ops, for a lazy that
\* returns the promise p.
AsyncPRun(p) == Started /\ leaf = asyncP(p)

\* The Result asyncP is to report for the promise p.
OutcomeOf(p) ==
    IF p.state = "fulfilled" THEN success(p.value) ELSE failure(p.value)

\* The run of asyncP(lazy) alone delivers the outcome of the promise.
AsyncPAloneDelivers(p) ==
    AsyncPRun(p) /\ ops = <<>> /\ Quiet(1) =>
        runs[1].completeCount = 1 /\ runs[1].result = OutcomeOf(p)

\* The run of asyncP(lazy).mapError(h) for a promise rejected with err
\* delivers failure(h(err)).
AsyncPMapErrorDelivers(p, h) ==
    AsyncPRun(p) /\ p.state = "rejected" /\ ops = <<[m |-> "mapError", arg |-> h]>>
    /\ Quiet(1)
        => /\ runs[1].completeCount = 1
           /\ runs[1].result = failure(ApplyFn(h, p.value).v)

\* C27: asyncP(lazy) reports both outcomes of the promise: resolved with a,
\* the run goes on with success(a); rejected with err, the effect fails with
\* err, a mapError handler attached is applied, and the run completes.
C27_AsyncPReportsBothOutcomes ==
    /\ [](\A p \in Promises : AsyncPAloneDelivers(p))
    /\ [](\A p \in Promises, h \in ErrorFns : AsyncPMapErrorDelivers(p, h))
    /\ (AsyncPRun(Settled("fulfilled", 1)) ~> Delivered)
    /\ (AsyncPRun(Settled("rejected", 10)) ~> Delivered)

\* asyncP(() => Promise.reject(10)).mapError(h): the starter has been called,
\* the run is quiet, the handler has not been invoked and nothing has been
\* delivered.
C27_Witness ==
    /\ AsyncPRun(Settled("rejected", 10))
    /\ Len(ops) = 1 /\ ops[1].m = "mapError"
    /\ Quiet(1)
    /\ runs[1].performed = <<NeverCalls>>
    /\ runs[1].calls = <<>>
    /\ runs[1].completeCount = 0

\* asyncP(() => Promise.resolve(1)).map(inc) has completed with success(2).
AsyncPResolvedDone ==
    /\ AsyncPRun(Settled("fulfilled", 1))
    /\ ops = <<[m |-> "map", arg |-> Inc]>>
    /\ Quiet(1)
    /\ runs[1].result = success(2)

\* The number of starters run r invoked that called the callback at once.
RECURSIVE SyncStarters(_)
SyncStarters(performed) ==
    IF performed = <<>> THEN 0
    ELSE LET w == performed[Len(performed)]
         IN SyncStarters(SubSeq(performed, 1, Len(performed) - 1))
                + (IF IsStarter(w) /\ ~w.deferred THEN 1 ELSE 0)

\* Run r has invoked no starter that calls back in a later turn.
NeverSuspended(r) ==
    \A k \in DOMAIN r.performed :
        IsStarter(r.performed[k]) => ~r.performed[k].deferred

\* While the innermost frame of a run that never suspended is interpreting,
\* every starter that called back at once has added a frame and none has
\* returned: k such Asyncs with a continuation pending make k + 1 frames.
FramePerSyncCallback(r) ==
    r.frames > 0 /\ r.current # Null /\ NeverSuspended(r) =>
        r.frames = SyncStarters(r.performed) + 1

\* A frame whose loop has ended returns and does nothing else: no instruction
\* is interpreted, no function invoked, the completion callback not invoked.
OuterFramesJustReturn ==
    \A i \in DOMAIN runs :
        runs[i].frames > 0 /\ runs[i].current = Null /\ runs'[i] # runs[i] =>
            /\ runs'[i].frames = runs[i].frames - 1
            /\ runs'[i].current = Null
            /\ runs'[i].completeCount = runs[i].completeCount
            /\ runs'[i].calls = runs[i].calls
            /\ runs'[i].performed = runs[i].performed
            /\ runs'[i].stack = runs[i].stack

\* C30: an Async whose starter calls its callback at once, with a continuation
\* pending, re-enters run inside the call of the starter, so k of them in a
\* chain make k + 1 active frames of run; once the innermost frame has ended
\* its loop, the outer frames return one after the other, interpret nothing
\* more, and the completion callback is invoked once in all.
C30_SyncCallbackNestsFrames ==
    /\ [](\A i \in DOMAIN runs : FramePerSyncCallback(runs[i]))
    /\ [](\A i \in DOMAIN runs : runs[i].completeCount <= 1)
    /\ [][OuterFramesJustReturn]_vars

\* A leaf Async and a chain of flatMaps that each return an Async, all
\* calling back at once: the innermost frame has completed the run while
\* MaxSyncChain + 1 frames are active.
C30_Witness ==
    /\ Started
    /\ leaf = async(Starter(success(1), FALSE))
    /\ Len(ops) = MaxSyncChain
    /\ \A k \in DOMAIN ops : ops[k].arg \in SyncAsyncKonts
    /\ runs[1].frames = MaxSyncChain + 1
    /\ SyncStarters(runs[1].performed) = MaxSyncChain + 1
    /\ runs[1].current = Null
    /\ runs[1].completeCount = 1

\* All the frames of such a run have returned, with the one completion.
NestedFramesReturned ==
    /\ Started
    /\ SyncStarters(runs[1].performed) = MaxSyncChain + 1
    /\ runs[1].frames = 0
    /\ runs[1].completeCount = 1

\* A call of run from the callback of an Async is made only when no frame of
\* that run is active: the run that called the starter has returned.
ReentersOnlyAfterReturn ==
    \A i \in DOMAIN runs :
        runs'[i].frames > runs[i].frames => runs[i].frames = 0

\* C29: the re-entrant call of run made from an Async callback is reached
\* only after control has returned to the caller of the run that invoked the
\* starter, for every Async the library builds, the one of all included,
\* whatever its children do.
C29_ReentryOnlyAfterReturn == [][ReentersOnlyAfterReturn]_vars

\* all([succeed(1)]).flatMap(f): the child completed inside the call of its
\* run, completeAll was called inside the starter of all, and run has been
\* re-entered with f's effect while the frame that called the starter is
\* still active.
C29_Witness ==
    /\ Started
    /\ agg.arr = <<succeed(1)>>
    /\ Len(ops) = 2 /\ ops[2].m = "flatMap"
    /\ InForEach(1)
    /\ runs[1].frames = 2
    /\ runs[1].calls # <<>>
    /\ runs[1].current = ApplyKont(ops[2].arg, <<1>>).eff

\* Every child of all calls back in a later turn: run is re-entered with no
\* frame active.
AllResumedAfterReturn ==
    /\ Started
    /\ Len(agg.arr) = 2
    /\ \A k \in DOMAIN agg.arr : agg.arr[k] = async(Starter(success(1), TRUE))
                                 \/ agg.arr[k] = async(Starter(success(5), TRUE))
    /\ Len(ops) = 2
    /\ runs[1].frames = 1
    /\ runs[1].calls # <<>>
    /\ ~InForEach(1)

-----------------------------------------------------------------------------
(* The Sync step and the stack *)

\* The step of a run at a Sync whose thunk raises leaves the stack as it was:
\* no entry popped, none discarded.
SyncRaiseLeavesStack ==
    \A i \in DOMAIN runs :
        runs'[i] # runs[i] /\ AtThrowingSync(runs[i]) =>
            /\ runs'[i].stack = runs[i].stack
            /\ runs'[i].dropped = runs[i].dropped

\* C34: the Sync step evaluates the thunk before it pops nextSuccess: when the
\* thunk raises, no entry has been removed from the stack, which is as it was
\* before the step.
C34_ThunkBeforePop == [][SyncRaiseLeavesStack]_vars

\* The thunk of sync(f).recover(h).map(g) has raised: both entries pushed are
\* gone from the stack, the handler discarded by the scan for g.
C34_Witness ==
    /\ ThrowingSyncRun
    /\ Len(ops) = 2 /\ ops[1].m = "recover" /\ ops[2].m = "map"
    /\ runs[1].thrown = <<leaf.f.v>>
    /\ runs[1].nextId = 3
    /\ runs[1].stack = <<>>
    /\ runs[1].dropped = {2}

-----------------------------------------------------------------------------
(* The stack at completion *)

\* A step in which the completion callback of run i is invoked.
Completes(i) == runs'[i].completeCount > runs[i].completeCount

EmptyStackAtCompletion ==
    \A i \in DOMAIN runs : Completes(i) => runs'[i].stack = <<>>

\* A run that has delivered a Result has an empty stack from then on.
EmptyStackOnceCompleted ==
    \A i \in DOMAIN runs : runs[i].completeCount > 0 => runs[i].stack = <<>>

\* C36: whenever the interpreter invokes the completion callback, the
\* continuation stack of that run is empty: a terminal Result is delivered
\* only after a scan has exhausted the stack.
C36_CompletesOnEmptyStack ==
    /\ [][EmptyStackAtCompletion]_vars
    /\ []EmptyStackOnceCompleted

\* A run of a chain of the greatest depth has delivered a failure after the
\* scan for a handler discarded every entry pushed.
C36_Witness ==
    /\ Started
    /\ Len(ops) = MaxChain
    /\ runs[1].completeCount = 1
    /\ foldBranch(runs[1].result) = "g"
    /\ runs[1].nextId = MaxChain + 1
    /\ Cardinality(runs[1].dropped) = MaxChain
    /\ runs[1].stack = <<>>

-----------------------------------------------------------------------------
(* Each entry of the stack is used once *)

IdsOn(stk) == {stk[j].id : j \in DOMAIN stk}
IdsCalled(r) == {r.calls[c].id : c \in DOMAIN r.calls}

\* The entries run i has invoked are distinct.
InvokedAtMostOnce ==
    \A i \in DOMAIN runs :
        \A c, d \in DOMAIN runs[i].calls :
            c # d => runs[i].calls[c].id # runs[i].calls[d].id

\* An entry pushed is on the stack, or was invoked, or was discarded: at most
\* one of the three (the entry popped for a thunk that raised is in none).
EntriesPartitioned ==
    \A i \in DOMAIN runs :
        LET r == runs[i]
        IN /\ IdsOn(r.stack) \cap IdsCalled(r) = {}
           /\ IdsOn(r.stack) \cap r.dropped = {}
           /\ IdsCalled(r) \cap r.dropped = {}
           /\ IdsOn(r.stack) \cup IdsCalled(r) \cup r.dropped
                  \subseteq 1..(r.nextId - 1)

\* A step invokes only entries that were on the stack and not yet discarded,
\* and nothing discarded comes back.
InvokesFromStack ==
    \A i \in DOMAIN runs :
        /\ \A c \in DOMAIN runs'[i].calls :
              c > Len(runs[i].calls) =>
                  /\ runs'[i].calls[c].id \in IdsOn(runs[i].stack)
                  /\ runs'[i].calls[c].id \notin runs[i].dropped
        /\ runs[i].dropped \subseteq runs'[i].dropped

\* C37: in a run whose Async callbacks each fire at most once, every entry
\* pushed on the stack is invoked at most once, and an entry discarded by a
\* scan is never invoked afterwards.
C37_EntriesUsedOnce ==
    /\ []InvokedAtMostOnce
    /\ []EntriesPartitioned
    /\ [][InvokesFromStack]_vars

\* A run resumed by a deferred Async has invoked two entries and discarded the
\* handler between them, and has ended.
C37_Witness ==
    /\ Started
    /\ leaf.type = "AsyncEffect" /\ leaf.completable.deferred
    /\ Quiet(1)
    /\ Len(runs[1].calls) = 2
    /\ runs[1].dropped = {2}

-----------------------------------------------------------------------------
(* The exits of the loop *)

\* A step in which a frame of run i returns, no exception having left the run.
LoopReturns(i) ==
    /\ runs'[i].frames < runs[i].frames
    /\ runs'[i].thrown = <<>>

\* Run r has delivered a Result or waits for the callback of an Async.
DeliveredOrSuspended(r) == r.completeCount >= 1 \/ r.pending # {}

ReturnsDeliveredOrSuspended ==
    \A i \in DOMAIN runs : LoopReturns(i) => DeliveredOrSuspended(runs'[i])

NoSilentExit ==
    \A i \in DOMAIN runs :
        runs[i].frames = 0 /\ runs[i].thrown = <<>> => DeliveredOrSuspended(runs[i])

\* C31: in a run with no unknown tag and no user function that raises,
\* whenever a loop of run, entered or re-entered, returns, the completion
\* callback has been invoked or an Async starter has been invoked whose
\* callback has not fired yet; no state has the loop exited with neither.
C31_LoopExitsDeliveredOrSuspended ==
    /\ [][ReturnsDeliveredOrSuspended]_vars
    /\ []NoSilentExit

\* The loop returned suspended at a deferred Async, was re-entered by the
\* callback, suspended at a second Async and, re-entered again, delivered.
C31_Witness ==
    /\ Started
    /\ Quiet(1)
    /\ runs[1].thrown = <<>>
    /\ runs[1].completeCount = 1
    /\ Len(runs[1].performed) = 2
    /\ \A k \in 1..2 : IsStarter(runs[1].performed[k]) /\ runs[1].performed[k].deferred

\* The loop has returned with nothing delivered and a callback outstanding.
SuspendedNotDelivered ==
    /\ Started
    /\ runs[1].frames = 0
    /\ runs[1].completeCount = 0
    /\ runs[1].pending # {}
    /\ runs[1].stack # <<>>

-----------------------------------------------------------------------------
(* The recursive reference evaluation *)

\* The outcome of an evaluation that an exception leaves.
Uncaught(x) == [type |-> "uncaught", value |-> x]

\* eval(Succeed v) = success(v); eval(Sync t) = success(t()); eval(Fail e) =
\* failure(e); eval(FlatMap(s, k)) = eval(k(v)) if eval(s) = success(v), else
\* eval(s); eval(Recover(s, h)) = eval(h(e)) if eval(s) = failure(e), else
\* eval(s).  An Async evaluates to the Either its starter passes to the
\* callback; an exception raised by a thunk or a function, or by an unknown
\* tag, ends the evaluation.
RECURSIVE Eval(_)
Eval(eff) ==
    CASE eff.type = "SucceedEffect" -> success(eff.value)
      [] eff.type = "SyncEffect" ->
            IF eff.f.throws THEN Uncaught(eff.f.v) ELSE success(eff.f.v)
      [] eff.type = "FailEffect" -> failure(eff.error)
      [] eff.type = "AsyncEffect" -> eff.completable.res
      [] eff.type = "FlatMapEffect" ->
            LET s == Eval(eff.effect)
            IN IF s.type = "success"
               THEN LET a == ApplyKont(eff.f, s.value)
                    IN IF a.raised THEN Uncaught(a.exn) ELSE Eval(a.eff)
               ELSE s
      [] eff.type = "RecoverEffect" ->
            LET s == Eval(eff.effect)
            IN IF s.type = "failure"
               THEN LET a == ApplyKont(eff.r, s.value)
                    IN IF a.raised THEN Uncaught(a.exn) ELSE Eval(a.eff)
               ELSE s
      [] OTHER -> Uncaught(UnknownTypeError)

\* Run r has ended as the reference evaluation of eff ends: with its Result
\* delivered once, or with its exception out of run and nothing delivered.
EndedAs(r, eff) ==
    IF Eval(eff).type = "uncaught"
    THEN r.completeCount = 0 /\ r.thrown = <<Eval(eff).value>>
    ELSE r.completeCount = 1 /\ r.result = Eval(eff) /\ r.thrown = <<>>

\* C35: for every effect tree without Async the terminal Result the
\* trampolined run delivers is the result of the recursive reference
\* evaluation; no scan discards a handler that a later outcome needs.
C35_RunAgreesWithEval ==
    Started /\ AsyncFree(prog) =>
        /\ runs[1].completeCount >= 1 => runs[1].result = Eval(prog)
        /\ Quiet(1) => EndedAs(runs[1], prog)

\* A tree of the greatest depth: a failure went over a Success entry to its
\* handler, and the handler's outcome went on to the Result delivered.
C35_Witness ==
    /\ Started
    /\ AsyncFree(prog)
    /\ Len(ops) = MaxChain
    /\ Quiet(1)
    /\ runs[1].completeCount = 1
    /\ runs[1].result = Eval(prog)
    /\ runs[1].dropped # {}
    /\ \E c \in DOMAIN runs[1].calls : runs[1].calls[c].type = "Failure"

-----------------------------------------------------------------------------
(* Program order *)

\* The k-th function of fs that run r invoked received the success value of
\* the effect before it: of e for the first, of the effect the function
\* before it returned for the others.
ReceivesValueBefore(r, e, fs) ==
    \A k \in DOMAIN SuccessCalls(r) :
        LET before == IF k = 1 THEN e
                      ELSE ApplyKont(fs[k - 1], SuccessCalls(r)[k - 1].arg).eff
        IN SuccessCalls(r)[k].arg = Eval(before).value /\ Eval(before).type = "success"

\* A run that delivered a success has invoked every function of fs.
AllInvokedOnSuccess(r, fs) ==
    r.completeCount >= 1 /\ r.result.type = "success" =>
        Len(SuccessCalls(r)) = Len(fs)

\* Run r of e.flatMap(fs[1])...flatMap(fs[n]) keeps the order of the program.
InProgramOrder(r, e, fs) ==
    /\ InListOrder(r, fs)
    /\ \A c, d \in DOMAIN r.calls : c # d => r.calls[c].id # r.calls[d].id
    /\ ReceivesValueBefore(r, e, fs)
    /\ AllInvokedOnSuccess(r, fs)

\* C32: for e.flatMap(f1).flatMap(f2)...flatMap(fn) on the success path the
\* functions are invoked in the order f1, ..., fn, each exactly once, and each
\* receives the success value of the effect the one before it returned; the
\* same when steps are Async and resume later.
C32_ProgramOrder ==
    Started /\ ops # <<>> =>
        \A i \in DOMAIN runs : InProgramOrder(runs[i], leaf, ops[1].arg)

\* e and the effect of the second of three functions are Asyncs that resumed
\* later: the three functions ran in order with the values 1, 2 and 5.
C32_Witness ==
    /\ ChainDone
    /\ leaf = async(Starter(success(1), TRUE))
    /\ ops[1].arg = <<SucceedOf(Inc), Ret(async(Starter(success(5), TRUE))), SucceedOf(Inc)>>
    /\ Len(SuccessCalls(runs[2])) = 3
    /\ \A k \in 1..3 : SuccessCalls(runs[2])[k].arg = <<1, 2, 5>>[k]
    /\ runs[2].result = success(6)

-----------------------------------------------------------------------------
(* Runs in progress at the same time *)

\* The continuation functions in the tree of an effect and in the effects
\* they return without a computation.
RECURSIVE KontsOf(_), KontsIn(_)
KontsOf(eff) ==
    CASE eff.type = "FlatMapEffect" -> KontsIn(eff.f) \cup KontsOf(eff.effect)
      [] eff.type = "RecoverEffect" -> KontsIn(eff.r) \cup KontsOf(eff.effect)
      [] OTHER -> {}
KontsIn(f) == {f} \cup (IF f.k = "ret" THEN KontsOf(f.eff) ELSE {})

\* Both runs have been started and both wait for the callback of an Async.
BothInProgress ==
    Len(runs) = 2 /\ runs[1].pending # {} /\ runs[2].pending # {}

\* What a step of run i invokes is an entry that was on the stack of run i.
InvokesOwnEntry ==
    \A i \in DOMAIN runs :
        \A c \in DOMAIN runs'[i].calls :
            c > Len(runs[i].calls) =>
                \E j \in DOMAIN runs[i].stack :
                    runs[i].stack[j] =
                        Continuation(runs'[i].calls[c].type, runs'[i].calls[c].f,
                                     runs'[i].calls[c].id)

\* The entries on the stack of a run, and the functions it invoked, are those
\* of the effect it was called on.
OnlyOwnEntries ==
    \A i \in DOMAIN runs :
        /\ \A j \in DOMAIN runs[i].stack : runs[i].stack[j].f \in KontsOf(runs[i].effect)
        /\ \A c \in DOMAIN runs[i].calls : runs[i].calls[c].f \in KontsOf(runs[i].effect)

\* Each run ends as the effect it was called on ends when run alone.
EndsAsAlone ==
    \A i \in DOMAIN runs :
        /\ runs[i].completeCount >= 1 => runs[i].result = Eval(runs[i].effect)
        /\ Quiet(i) => EndedAs(runs[i], runs[i].effect)

\* C33: two runs in progress at once, of the same effect or of different
\* ones, with their Async callbacks firing in any order, never share a
\* continuation stack: no entry pushed by one is popped or invoked by the
\* other, and each delivers the terminal Result it delivers when run alone.
C33_RunsDoNotShareStack ==
    /\ [][OwnEmptyStack /\ OneRunPerStep /\ InvokesOwnEntry]_vars
    /\ []OnlyOwnEntries
    /\ []EndsAsAlone

\* Two runs of different effects were started, the second while the first
\* waited, and both delivered their own Result.
C33_Witness ==
    /\ Built(async(Starter(success(1), TRUE)), "map", Inc)
    /\ TwoQuiet
    /\ runs[2].effect \in OtherEffects
    /\ runs[1].result = success(2)
    /\ runs[2].result = success(21)
    /\ Len(runs[1].calls) = 1 /\ Len(runs[2].calls) = 1

\* Both runs wait with entries on their stacks.
BothWaitWithEntries ==
    /\ BothInProgress
    /\ runs[1].stack # <<>>
    /\ runs[2].stack # <<>>
    /\ runs[2].effect # runs[1].effect

-----------------------------------------------------------------------------
(* all over an empty array *)

\* all([]) is the effect run.
AllEmptyRun == Started /\ AllCalled /\ agg.arr = <<>>

\* The run of all(arr) has completed with success of the empty list.
CompletedWithEmptyList ==
    /\ Started
    /\ runs[1].completeCount = 1
    /\ runs[1].result = success(<<>>)

\* C38: running all over an empty sequence of effects eventually invokes the
\* completion callback, with success of the empty list, and invokes it once.
C38_AllEmptyCompletes ==
    /\ [](AllEmptyRun => runs[1].completeCount <= 1)
    /\ (AllEmptyRun ~> CompletedWithEmptyList)

\* The starter of all([]) was called and has returned, and so has run: no
\* child was run, nothing is outstanding and nothing was delivered.
C38_Witness ==
    /\ AllEmptyRun
    /\ agg.begun
    /\ runs[1].performed = <<AllStarter(<<>>)>>
    /\ Len(runs) = 1
    /\ Quiet(1)
    /\ runs[1].thrown = <<>>
    /\ runs[1].completeCount = 0

-----------------------------------------------------------------------------
(* The starter of flatMapP calls back once *)

\* The starters run r has called.
StartersOf(r) == SelectSeq(r.performed, IsStarter)

CallbackAtMostOncePerStarter ==
    \A i \in DOMAIN runs : runs[i].callbacks <= Len(StartersOf(runs[i]))

CallbackOncePerStarterWhenQuiet ==
    \A i \in DOMAIN runs :
        Quiet(i) => runs[i].callbacks = Len(StartersOf(runs[i]))

\* C39: the Async starter flatMapP builds invokes the callback it is given
\* exactly once per run, whatever the outcome of the promise and whatever the
\* continuations after it do, one that raises inside the success callback
\* included: the catch of the promise delivers no second outcome.
C39_FlatMapPCallsBackOnce ==
    /\ CallbackAtMostOncePerStarter
    /\ CallbackOncePerStarterWhenQuiet

\* succeed(1).flatMapP(f, e).map(g) with a g that raises: the promise of f was
\* fulfilled, g raised inside the success callback, and the catch called the
\* callback again, which delivered failure(e(99)).
C39_Witness ==
    /\ Started
    /\ leaf = succeed(1)
    /\ Len(ops) = 2
    /\ ops[1] = [m |-> "flatMapP", arg |-> [f |-> Resolving(Inc), e |-> Inc]]
    /\ ops[2] = [m |-> "map", arg |-> Throwing(99)]
    /\ Quiet(1)
    /\ Len(StartersOf(runs[1])) = 1
    /\ runs[1].callbacks = 2
    /\ runs[1].thrown = <<99>>
    /\ runs[1].result = failure(100)

====
